---- MODULE Spec2Model ----
(***************************************************************************)
(* MindForge planning agent: the request handler and PlanningAgent         *)
(* orchestrator of the analyze-goal function (validators, tool executors,  *)
(* executeWithRetry, parseJSONResponse) and the gateway client             *)
(* fetchWithRetry of the earlier single-call handler.                      *)
(*                                                                         *)
(* JavaScript values are tagged records [t |-> type, ...].  A string is    *)
(* carried as a TLA+ string, except where the code looks at its characters *)
(* (trim on the goal): there it is a sequence of one-character strings.    *)
(* The text of an LLM answer is a sequence of lexical tokens.              *)
(***************************************************************************)
EXTENDS Integers, Sequences, FiniteSets, TLC

VARIABLES
    pc,          \* position of the request handler
    request,     \* the body and environment of the request being served
    state,       \* PlanningAgent.state (AgentState), or NoAgent
    attempt,     \* executeWithRetry: loop variable
    lastError,   \* executeWithRetry: lastError
    response,    \* the HTTP response of the handler, or NoResponse
    invoked,     \* history: executor invocations, in order (step names)
    prompts,     \* history: what each executor invocation put in its user prompt
    succeeded,   \* history: steps whose executor returned, in order
    delays,      \* history: backoff delays awaited by executeWithRetry
    inFlight,    \* history: executor invocations awaiting their LLM call
    validated,   \* history: outcome of the final validateFullResponse
    stepErrors,  \* history: errors thrown by the attempts of the current step
    answer,      \* history: what the latest LLM call settled with
    fw,          \* the state of one fetchWithRetry call
    call,        \* one call of a validator or of the parser: argument and result
    twin,        \* repeated run: the gateway's script and the record of the first run
    other,       \* concurrent requests: the handler that is not running now
    ui           \* the Index page: its React state and the analyzeGoal calls pending

agentVars == <<pc, request, state, attempt, lastError, response,
               invoked, prompts, succeeded, delays, inFlight, validated, stepErrors,
               answer>>
vars == <<agentVars, fw, call, twin, other, ui>>

----------------------------------------------------------------------------
(* JavaScript values *)

Undef == [t |-> "undefined"]
Null == [t |-> "null"]
Str(s) == [t |-> "string", v |-> s]
Num(n, d) == [t |-> "number", n |-> n, d |-> d]   \* the number n/d, d > 0; n/0 is +-Infinity
Arr(a) == [t |-> "array", v |-> a]
Obj(o) == [t |-> "object", v |-> o]

\* typeof x
TypeOf(x) == IF x.t \in {"null", "array"} THEN "object" ELSE x.t

\* !x is false
Truthy(x) ==
    CASE x.t \in {"undefined", "null"} -> FALSE
      [] x.t = "string" -> Len(x.v) > 0
      [] x.t = "number" -> x.n # 0
      [] OTHER -> TRUE

\* x.k for a value already known to be an object (typeof 'object', truthy)
Get(x, k) == IF x.t = "object" /\ k \in DOMAIN x.v THEN x.v[k] ELSE Undef

\* typeof x === 'string'
IsString(x) == TypeOf(x) = "string"

\* typeof x === 'string' && x.length > 0
IsNonEmptyString(x) == IsString(x) /\ Len(x.v) > 0

\* list.includes(x) for a list of string literals
Includes(list, x) == IsString(x) /\ x.v \in list

----------------------------------------------------------------------------
(* Errors *)

\* new ValidationError(field, message)
ValidationError(field, message) ==
    [name |-> "ValidationError", field |-> field,
     message |-> "Validation error on '" \o field \o "': " \o message]

\* new Error(message)
Error(message) == [name |-> "Error", field |-> "", message |-> message]

\* error instanceof ValidationError
IsValidationError(e) == e.name = "ValidationError"

Ok(value) == [ok |-> TRUE, value |-> value]
Throw(error) == [ok |-> FALSE, error |-> error]

\* Sequencing: `next` runs on the value of `r` unless `r` threw
Then(r, next(_)) == IF r.ok THEN next(r.value) ELSE r

----------------------------------------------------------------------------
(* Validators *)

MaxGoalLength == 1000
MinSummaryLength == 10

WhiteSpace == {" ", "\n", "\t"}

\* Variant: the goal is not trimmed
TrimNothing(s) == s

\* String.prototype.trim on a sequence of characters
Trim(s) ==
    IF \A i \in 1..Len(s) : s[i] \in WhiteSpace
    THEN <<>>
    ELSE LET first == CHOOSE i \in 1..Len(s) :
                        s[i] \notin WhiteSpace /\ \A j \in 1..(i-1) : s[j] \in WhiteSpace
             last == CHOOSE i \in 1..Len(s) :
                        s[i] \notin WhiteSpace /\ \A j \in (i+1)..Len(s) : s[j] \in WhiteSpace
         IN SubSeq(s, first, last)

validPriorities == {"low", "medium", "high", "critical"}
validComplexities == {"simple", "moderate", "complex"}
validSeverities == {"low", "medium", "high"}

\* Variant: the length limit is applied to the trimmed goal
validateInputTrimmedLength(body) ==
    IF ~Truthy(body) \/ TypeOf(body) # "object"
    THEN Throw(ValidationError("body", "Invalid request body"))
    ELSE IF ~IsString(Get(body, "goal")) \/ Len(Trim(Get(body, "goal").v)) = 0
    THEN Throw(ValidationError("goal", "Goal is required and must be a non-empty string"))
    ELSE IF Len(Trim(Get(body, "goal").v)) > MaxGoalLength
    THEN Throw(ValidationError("goal", "Goal must be less than 1000 characters"))
    ELSE IF ~Includes(validPriorities, Get(body, "priority"))
    THEN Throw(ValidationError("priority", "Must be one of: low, medium, high, critical"))
    ELSE IF Get(body, "timeAvailable") # Undef /\ ~IsString(Get(body, "timeAvailable"))
    THEN Throw(ValidationError("timeAvailable", "Must be a string"))
    ELSE Ok(Obj([goal |-> Str(Trim(Get(body, "goal").v)),
                 priority |-> Get(body, "priority"),
                 timeAvailable |-> Get(body, "timeAvailable")]))

validateInput(body) ==
    IF ~Truthy(body) \/ TypeOf(body) # "object"
    THEN Throw(ValidationError("body", "Invalid request body"))
    ELSE IF ~IsString(Get(body, "goal")) \/ Len(Trim(Get(body, "goal").v)) = 0
    THEN Throw(ValidationError("goal", "Goal is required and must be a non-empty string"))
    ELSE IF Len(Get(body, "goal").v) > MaxGoalLength
    THEN Throw(ValidationError("goal", "Goal must be less than 1000 characters"))
    ELSE IF ~Includes(validPriorities, Get(body, "priority"))
    THEN Throw(ValidationError("priority", "Must be one of: low, medium, high, critical"))
    ELSE IF Get(body, "timeAvailable") # Undef /\ ~IsString(Get(body, "timeAvailable"))
    THEN Throw(ValidationError("timeAvailable", "Must be a string"))
    ELSE Ok(Obj([goal |-> Str(Trim(Get(body, "goal").v)),
                 priority |-> Get(body, "priority"),
                 timeAvailable |-> Get(body, "timeAvailable")]))

validateGoalAnalysis(data) ==
    IF ~Truthy(data) \/ TypeOf(data) # "object"
    THEN Throw(ValidationError("goalAnalysis", "Must be an object"))
    ELSE IF ~IsString(Get(data, "summary")) \/ Len(Get(data, "summary").v) < MinSummaryLength
    THEN Throw(ValidationError("goalAnalysis.summary", "Must be a meaningful summary"))
    ELSE IF ~IsNonEmptyString(Get(data, "category"))
    THEN Throw(ValidationError("goalAnalysis.category", "Category is required"))
    ELSE IF ~Includes(validComplexities, Get(data, "complexity"))
    THEN Throw(ValidationError("goalAnalysis.complexity", "Must be one of: simple, moderate, complex"))
    ELSE Ok(Obj([summary |-> Get(data, "summary"),
                 category |-> Get(data, "category"),
                 complexity |-> Get(data, "complexity")]))

\* Variant: elements are numbered from 1
IndexedOneBased(name, index) == name \o "[" \o ToString(index + 1) \o "]"

\* `actionSteps[${index}]`, `risks[${index}]`
Indexed(name, index) == name \o "[" \o ToString(index) \o "]"

validateActionStep(step, index) ==
    IF ~Truthy(step) \/ TypeOf(step) # "object"
    THEN Throw(ValidationError(Indexed("actionSteps", index), "Must be an object"))
    ELSE IF TypeOf(Get(step, "stepNumber")) # "number"
            \/ Get(step, "stepNumber").n < 1 * Get(step, "stepNumber").d
    THEN Throw(ValidationError(Indexed("actionSteps", index) \o ".stepNumber", "Must be a positive number"))
    ELSE IF ~IsNonEmptyString(Get(step, "title"))
    THEN Throw(ValidationError(Indexed("actionSteps", index) \o ".title", "Title is required"))
    ELSE IF ~IsNonEmptyString(Get(step, "description"))
    THEN Throw(ValidationError(Indexed("actionSteps", index) \o ".description", "Description is required"))
    ELSE IF ~IsString(Get(step, "estimatedTime"))
    THEN Throw(ValidationError(Indexed("actionSteps", index) \o ".estimatedTime", "Estimated time is required"))
    ELSE IF Get(step, "dependencies").t # "array"
    THEN Throw(ValidationError(Indexed("actionSteps", index) \o ".dependencies", "Dependencies must be an array"))
    ELSE Ok(Obj([stepNumber |-> Get(step, "stepNumber"),
                 title |-> Get(step, "title"),
                 description |-> Get(step, "description"),
                 estimatedTime |-> Get(step, "estimatedTime"),
                 dependencies |-> Get(step, "dependencies")]))

validateRisk(risk, index) ==
    IF ~Truthy(risk) \/ TypeOf(risk) # "object"
    THEN Throw(ValidationError(Indexed("risks", index), "Must be an object"))
    ELSE IF ~IsString(Get(risk, "id"))
    THEN Throw(ValidationError(Indexed("risks", index) \o ".id", "ID is required"))
    ELSE IF ~IsNonEmptyString(Get(risk, "title"))
    THEN Throw(ValidationError(Indexed("risks", index) \o ".title", "Title is required"))
    ELSE IF ~Includes(validSeverities, Get(risk, "severity"))
    THEN Throw(ValidationError(Indexed("risks", index) \o ".severity", "Must be one of: low, medium, high"))
    ELSE IF ~IsNonEmptyString(Get(risk, "mitigation"))
    THEN Throw(ValidationError(Indexed("risks", index) \o ".mitigation", "Mitigation strategy is required"))
    ELSE Ok(Obj([id |-> Get(risk, "id"),
                 title |-> Get(risk, "title"),
                 severity |-> Get(risk, "severity"),
                 mitigation |-> Get(risk, "mitigation")]))

validateNextAction(data) ==
    IF ~Truthy(data) \/ TypeOf(data) # "object"
    THEN Throw(ValidationError("nextImmediateAction", "Must be an object"))
    ELSE IF ~IsNonEmptyString(Get(data, "action"))
    THEN Throw(ValidationError("nextImmediateAction.action", "Action is required"))
    ELSE IF ~IsNonEmptyString(Get(data, "reasoning"))
    THEN Throw(ValidationError("nextImmediateAction.reasoning", "Reasoning is required"))
    ELSE IF ~IsNonEmptyString(Get(data, "timeframe"))
    THEN Throw(ValidationError("nextImmediateAction.timeframe", "Timeframe is required"))
    ELSE Ok(Obj([action |-> Get(data, "action"),
                 reasoning |-> Get(data, "reasoning"),
                 timeframe |-> Get(data, "timeframe")]))

\* array.map(validate): the elements in ascending index order (0-based index
\* passed to the validator), stopping at the first that throws
MapValidate(items, validate(_, _)) ==
    LET results == [i \in 1..Len(items) |-> validate(items[i], i - 1)]
        failing == {i \in 1..Len(items) : ~results[i].ok}
    IN IF failing = {}
       THEN Ok(Arr([i \in 1..Len(items) |-> results[i].value]))
       ELSE results[CHOOSE i \in failing : \A j \in failing : i <= j]

\* Variant: the final validation accepts whatever was assembled
validateFullResponseUnchecked(data) == Ok(data)

validateFullResponse(data) ==
    LET checkNextAction(goalAnalysis, actionSteps, risks) ==
          LET build(nextImmediateAction) ==
                Ok(Obj([goalAnalysis |-> goalAnalysis,
                        actionSteps |-> actionSteps,
                        totalEstimatedTime |-> Get(data, "totalEstimatedTime"),
                        risks |-> risks,
                        nextImmediateAction |-> nextImmediateAction]))
          IN Then(validateNextAction(Get(data, "nextImmediateAction")), build)
        checkRisks(goalAnalysis, actionSteps) ==
          LET next(risks) == checkNextAction(goalAnalysis, actionSteps, risks)
          IN IF ~IsString(Get(data, "totalEstimatedTime"))
             THEN Throw(ValidationError("totalEstimatedTime", "Total estimated time is required"))
             ELSE IF Get(data, "risks").t # "array"
             THEN Throw(ValidationError("risks", "Must be an array"))
             ELSE Then(MapValidate(Get(data, "risks").v, validateRisk), next)
        checkSteps(goalAnalysis) ==
          LET next(actionSteps) == checkRisks(goalAnalysis, actionSteps)
          IN IF Get(data, "actionSteps").t # "array" \/ Len(Get(data, "actionSteps").v) = 0
             THEN Throw(ValidationError("actionSteps", "Must be a non-empty array"))
             ELSE Then(MapValidate(Get(data, "actionSteps").v, validateActionStep), next)
    IN IF ~Truthy(data) \/ TypeOf(data) # "object"
       THEN Throw(ValidationError("response", "Invalid response structure"))
       ELSE Then(validateGoalAnalysis(Get(data, "goalAnalysis")), checkSteps)

----------------------------------------------------------------------------
(* Response parser *)

\* Lexical tokens of an LLM answer: a code fence ```, a word (a language tag
\* or any other prose), white space, and the text of one JSON value.
Fence == [tok |-> "fence"]
Word(w) == [tok |-> "word", v |-> w]
Space == [tok |-> "space"]
Json(value) == [tok |-> "json", v |-> value]

\* content.trim()
TrimTokens(text) ==
    IF \A i \in 1..Len(text) : text[i] = Space
    THEN <<>>
    ELSE LET first == CHOOSE i \in 1..Len(text) :
                        text[i] # Space /\ \A j \in 1..(i-1) : text[j] = Space
             last == CHOOSE i \in 1..Len(text) :
                        text[i] # Space /\ \A j \in (i+1)..Len(text) : text[j] = Space
         IN SubSeq(text, first, last)

\* cleanContent.startsWith('```json'), cleanContent.startsWith('```')
StartsWithJsonFence(text) ==
    Len(text) >= 2 /\ text[1] = Fence /\ text[2].tok = "word" /\ text[2].v = "json"
StartsWithFence(text) == Len(text) >= 1 /\ text[1] = Fence
EndsWithFence(text) == Len(text) >= 1 /\ text[Len(text)] = Fence

\* JSON.parse: white space around the one value is allowed, nothing else
JSONParse(text) ==
    IF Len(TrimTokens(text)) = 1 /\ TrimTokens(text)[1].tok = "json"
    THEN Ok(TrimTokens(text)[1].v)
    ELSE Throw(Error("SyntaxError"))

\* Variant: only a fence tagged json is removed at the start
StripOpeningFenceJsonOnly(text) ==
    IF StartsWithJsonFence(text) THEN SubSeq(text, 3, Len(text)) ELSE text

\* The two if statements that remove the markdown code block markers
StripOpeningFence(text) ==
    IF StartsWithJsonFence(text) THEN SubSeq(text, 3, Len(text))
    ELSE IF StartsWithFence(text) THEN SubSeq(text, 2, Len(text))
    ELSE text

StripClosingFence(text) ==
    IF EndsWithFence(text) THEN SubSeq(text, 1, Len(text) - 1) ELSE text

\* Variant: a text that does not parse yields null instead of an error
ParseOrDefault(parsed) ==
    IF parsed.ok THEN parsed ELSE Ok(Null)

\* try { return JSON.parse(cleanContent) } catch { throw new Error(...) }
ParseOrFail(parsed) ==
    IF parsed.ok THEN parsed ELSE Throw(Error("Failed to parse LLM response as JSON"))

parseJSONResponse(content) ==
    ParseOrFail(JSONParse(TrimTokens(StripClosingFence(StripOpeningFence(TrimTokens(content))))))

----------------------------------------------------------------------------
(* LLM interface *)

\* What the fetch of callLLM settles with: a rejection (no response), or a
\* response with a status and, when ok, a body that is either no JSON, JSON
\* without choices[0].message, or a message with its content.
FetchRejects == [kind |-> "reject"]
HttpError(status) == [kind |-> "response", status |-> status, body |-> "error"]
HttpOk(body, content) == [kind |-> "response", status |-> 200, body |-> body, content |-> content]

\* Variant: only the status 200 counts as ok
ResponseOkOnly200(r) == r.status = 200

\* response.ok
ResponseOk(r) == r.status >= 200 /\ r.status <= 299

\* callLLM without tool definitions (no executor passes any)
callLLM(outcome) ==
    IF outcome.kind = "reject" THEN Throw(Error("fetch failed"))
    ELSE IF ~ResponseOk(outcome)
    THEN Throw(Error("LLM API error " \o ToString(outcome.status)))
    ELSE IF outcome.body = "invalid" THEN Throw(Error("SyntaxError"))
    ELSE IF outcome.body = "no-message" THEN Throw(Error("No message in LLM response"))
    ELSE Ok([content |-> outcome.content])

----------------------------------------------------------------------------
(* Tool executors *)

\* parseJSONResponse(response.content)
ParseContent(resp) == parseJSONResponse(resp.content)

executeAnalyzeComplexity(outcome) ==
    Then(Then(callLLM(outcome), ParseContent), validateGoalAnalysis)

\* executeGenerateSteps after parsing: the steps array, each step, totalTime
GenerateStepsResult(parsed) ==
    LET build(validatedSteps) ==
          Ok([steps |-> validatedSteps,
              totalTime |-> IF IsString(Get(parsed, "totalTime"))
                            THEN Get(parsed, "totalTime")
                            ELSE Str("Varies")])
    IN IF ~Truthy(parsed) \/ Get(parsed, "steps").t # "array"
       THEN Throw(ValidationError("steps", "Invalid steps structure"))
       ELSE Then(MapValidate(Get(parsed, "steps").v, validateActionStep), build)

executeGenerateSteps(outcome) ==
    Then(Then(callLLM(outcome), ParseContent), GenerateStepsResult)

\* executeIdentifyRisks after parsing: the risks array, each risk
IdentifyRisksResult(parsed) ==
    IF ~Truthy(parsed) \/ Get(parsed, "risks").t # "array"
    THEN Throw(ValidationError("risks", "Invalid risks structure"))
    ELSE MapValidate(Get(parsed, "risks").v, validateRisk)

executeIdentifyRisks(outcome) ==
    Then(Then(callLLM(outcome), ParseContent), IdentifyRisksResult)

executeDetermineNextAction(outcome) ==
    Then(Then(callLLM(outcome), ParseContent), validateNextAction)

\* actionSteps.slice(0, 3)
FirstSteps(actionSteps) ==
    SubSeq(actionSteps, 1, IF Len(actionSteps) < 3 THEN Len(actionSteps) ELSE 3)

\* Variant: determine_next_action is told all the steps
UserPromptAllSteps(step, st) ==
    CASE step = "analyze_complexity" ->
           [goal |-> st.input.v.goal, priority |-> st.input.v.priority]
      [] step = "generate_steps" ->
           [goal |-> st.input.v.goal,
            complexity |-> Get(Get(st.partialResponse, "goalAnalysis"), "complexity"),
            timeAvailable |-> st.input.v.timeAvailable]
      [] step = "identify_risks" ->
           [goal |-> st.input.v.goal,
            steps |-> Get(st.partialResponse, "actionSteps").v]
      [] step = "determine_next_action" ->
           [priority |-> st.input.v.priority,
            steps |-> Get(st.partialResponse, "actionSteps").v]

\* What the executor of `step` is called with by run() and puts in its
\* prompts.  The arguments goalAnalysis.complexity and steps are the constants
\* of run() that were also stored in this.state.partialResponse; `st` is the
\* agent state at the call.
UserPrompt(step, st) ==
    CASE step = "analyze_complexity" ->
           [goal |-> st.input.v.goal, priority |-> st.input.v.priority]
      [] step = "generate_steps" ->
           [goal |-> st.input.v.goal,
            complexity |-> Get(Get(st.partialResponse, "goalAnalysis"), "complexity"),
            timeAvailable |-> st.input.v.timeAvailable]
      [] step = "identify_risks" ->
           [goal |-> st.input.v.goal,
            steps |-> Get(st.partialResponse, "actionSteps").v]
      [] step = "determine_next_action" ->
           [priority |-> st.input.v.priority,
            steps |-> FirstSteps(Get(st.partialResponse, "actionSteps").v)]

----------------------------------------------------------------------------
(* Requests and LLM answers explored *)

Chars(n) == [i \in 1..n |-> "a"]

Goals ==
    { Undef, Num(7, 1), Str(<<>>), Str(<<" ", " ">>),
      Str(<<" ", "g", "o", " ">>),
      Str(Chars(MaxGoalLength)), Str(Chars(MaxGoalLength + 1)) }

Priorities == { Str("medium"), Str("urgent"), Undef }

Times == { Undef, Str("2 weeks"), Num(3, 1) }

\* The body req.json() yields; InvalidJson makes req.json() throw.
InvalidJson == [t |-> "invalid-json"]

Bodies ==
    { Obj([goal |-> g, priority |-> p, timeAvailable |-> t]) :
        g \in Goals, p \in Priorities, t \in Times }
    \cup { Null, Str("text"), InvalidJson }

Bare(value) == <<Json(value)>>
Fenced(value) == <<Fence, Word("json"), Space, Json(value), Space, Fence>>

Answer(text) == HttpOk("message", text)

\* Failures explored at every step, and those explored at the first step only
FailedAnswers ==
    { HttpError(500), Answer(<<Word("not"), Space, Word("json")>>) }

OtherFailedAnswers ==
    { FetchRejects, HttpError(429), HttpOk("no-message", <<>>), HttpOk("invalid", <<>>) }

AnalysisA ==
    Obj([summary |-> Str("Learn the basics of guitar"), category |-> Str("Learning"),
         complexity |-> Str("moderate")])
AnalysisB ==
    Obj([summary |-> Str("A small task"), category |-> Str("Personal Development"),
         complexity |-> Str("simple"), confidence |-> Num(9, 10)])
AnalysisShort ==
    Obj([summary |-> Str("Too short"), category |-> Str("Learning"),
         complexity |-> Str("moderate")])

StepOne ==
    Obj([stepNumber |-> Num(1, 1), title |-> Str("Get a guitar"),
         description |-> Str("Buy or borrow a guitar"), estimatedTime |-> Str("2 days"),
         dependencies |-> Arr(<<>>)])
StepTwo ==
    Obj([stepNumber |-> Num(2, 1), title |-> Str("Learn chords"),
         description |-> Str("Practice the open chords"), estimatedTime |-> Str("1 week"),
         dependencies |-> Arr(<<Str("Get a guitar")>>)])
StepNoTitle ==
    Obj([stepNumber |-> Num(2, 1), title |-> Str(""),
         description |-> Str("Practice the open chords"), estimatedTime |-> Str("1 week"),
         dependencies |-> Arr(<<>>)])

StepThree ==
    Obj([stepNumber |-> Num(3, 1), title |-> Str("Learn a song"),
         description |-> Str("Play a song with three chords"), estimatedTime |-> Str("2 weeks"),
         dependencies |-> Arr(<<Str("Learn chords")>>)])
StepFour ==
    Obj([stepNumber |-> Num(4, 1), title |-> Str("Play for a friend"),
         description |-> Str("Perform the song once"), estimatedTime |-> Str("1 day"),
         dependencies |-> Arr(<<Str("Learn a song")>>)])

StepsA == Obj([steps |-> Arr(<<StepOne, StepTwo>>), totalTime |-> Str("2 weeks")])
StepsFour ==
    Obj([steps |-> Arr(<<StepOne, StepTwo, StepThree, StepFour>>),
         totalTime |-> Str("5 weeks")])
StepsNoTotal == Obj([steps |-> Arr(<<StepOne>>)])
StepsEmpty == Obj([steps |-> Arr(<<>>), totalTime |-> Str("none")])
StepsBadTitle == Obj([steps |-> Arr(<<StepOne, StepNoTitle>>), totalTime |-> Str("2 weeks")])
StepsMissing == Obj([totalTime |-> Str("2 weeks")])

RiskA ==
    Obj([id |-> Str("risk_1"), title |-> Str("No time"), severity |-> Str("medium"),
         mitigation |-> Str("Schedule practice")])
RiskBadSeverity ==
    Obj([id |-> Str("risk_1"), title |-> Str("No time"), severity |-> Str("severe"),
         mitigation |-> Str("Schedule practice")])

RisksA == Obj([risks |-> Arr(<<RiskA>>)])
RisksEmpty == Obj([risks |-> Arr(<<>>)])
RisksBad == Obj([risks |-> Arr(<<RiskA, RiskBadSeverity>>)])
RisksMissing == Arr(<<RiskA>>)

NextA ==
    Obj([action |-> Str("Find a guitar"), reasoning |-> Str("Nothing starts without it"),
         timeframe |-> Str("Today")])
NextNoTimeframe ==
    Obj([action |-> Str("Find a guitar"), reasoning |-> Str("Nothing starts without it"),
         timeframe |-> Str("")])

\* What the gateway may answer to the LLM call of each step
Answers(step) ==
    FailedAnswers \cup
    CASE step = "analyze_complexity" ->
           OtherFailedAnswers \cup
           { Answer(Fenced(AnalysisA)), Answer(Bare(AnalysisB)), Answer(Bare(AnalysisShort)) }
      [] step = "generate_steps" ->
           { Answer(Bare(StepsA)), Answer(Fenced(StepsNoTotal)), Answer(Bare(StepsEmpty)),
             Answer(Bare(StepsBadTitle)), Answer(Bare(StepsMissing)) }
      [] step = "identify_risks" ->
           { Answer(Bare(RisksA)), Answer(Bare(RisksEmpty)), Answer(Fenced(RisksBad)),
             Answer(Bare(RisksMissing)) }
      [] step = "determine_next_action" ->
           { Answer(Bare(NextA)), Answer(Bare(NextNoTimeframe)) }

----------------------------------------------------------------------------
(* Agent state and orchestrator *)

DefaultMaxRetries == 3
BackoffBase == 1000

NoAgent == [t |-> "no-agent"]
NoResponse == [t |-> "no-response"]
NoError == [t |-> "no-error"]
NotValidated == [t |-> "not-validated"]
NoAnswer == [t |-> "no-answer"]

\* {}
EmptyObject == Obj([k \in {} |-> Undef])

\* o.k = value
Set(o, k, value) ==
    Obj([f \in DOMAIN o.v \cup {k} |-> IF f = k THEN value ELSE o.v[f]])

createAgentState(input) ==
    [input |-> input,
     currentStep |-> "initialize",
     toolCalls |-> <<>>,
     toolResults |-> <<>>,
     partialResponse |-> EmptyObject,
     retryCount |-> 0,
     maxRetries |-> DefaultMaxRetries]

\* The steps of run() in program order, and the tool each one executes
ToolSteps == <<"analyze_complexity", "generate_steps", "identify_risks", "determine_next_action">>

ToolName(step) ==
    CASE step = "analyze_complexity" -> "analyze_goal_complexity"
      [] step = "generate_steps" -> "generate_action_steps"
      [] step = "identify_risks" -> "identify_risks"
      [] step = "determine_next_action" -> "determine_next_action"

\* Variant: the third step is left out
NextStepSkipsRisks(step) ==
    CASE step = "analyze_complexity" -> "generate_steps"
      [] step = "generate_steps" -> "determine_next_action"
      [] step = "identify_risks" -> "determine_next_action"
      [] step = "determine_next_action" -> "validate_output"

\* The step run() enters after `step` has succeeded
NextStep(step) ==
    CASE step = "analyze_complexity" -> "generate_steps"
      [] step = "generate_steps" -> "identify_risks"
      [] step = "identify_risks" -> "determine_next_action"
      [] step = "determine_next_action" -> "validate_output"

\* fn() of the step's executeWithRetry call, given what its LLM call settles with
Execute(step, outcome) ==
    CASE step = "analyze_complexity" -> executeAnalyzeComplexity(outcome)
      [] step = "generate_steps" -> executeGenerateSteps(outcome)
      [] step = "identify_risks" -> executeIdentifyRisks(outcome)
      [] step = "determine_next_action" -> executeDetermineNextAction(outcome)

\* run(): the assignments to this.state.partialResponse after a step
StorePartial(partial, step, result) ==
    CASE step = "analyze_complexity" -> Set(partial, "goalAnalysis", result)
      [] step = "generate_steps" ->
           Set(Set(partial, "actionSteps", result.steps), "totalEstimatedTime", result.totalTime)
      [] step = "identify_risks" -> Set(partial, "risks", result)
      [] step = "determine_next_action" -> Set(partial, "nextImmediateAction", result)

\* Variant: one attempt too many
MayAttemptOffByOne(a, maxRetries) == a <= maxRetries

\* Variant: a delay is awaited after every failed attempt, the last included
WaitsAfterEvery(a, maxRetries) == a < maxRetries

\* executeWithRetry: the loop condition, the wait condition and the delay
MayAttempt(a, maxRetries) == a < maxRetries
WaitsAfter(a, maxRetries) == a < maxRetries - 1
RetryDelay(a) == BackoffBase * (2 ^ a)

\* serve: the responses of the handler
SuccessResponse(result) == [status |-> 200, body |-> result]

ErrorResponse(error) ==
    [status |-> IF IsValidationError(error) THEN 400 ELSE 500,
     body |-> [code |-> IF IsValidationError(error) THEN "VALIDATION_ERROR" ELSE "AGENT_ERROR",
               message |-> error.message,
               field |-> IF IsValidationError(error) THEN Str(error.field) ELSE Undef]]

----------------------------------------------------------------------------
(* The request handler (serve) and PlanningAgent.run *)

NoRequest == [t |-> "no-request"]
FwIdle == [pc |-> "idle"]
NoCall == [fn |-> "none"]
NoRun == [t |-> "no-run"]
NoTwin == [run |-> 1, script |-> <<>>, first |-> NoRun]

\* An invocation that has not read its request yet
\* The Index page as first rendered: useState(false) and three times
\* useState(null); no analyzeGoal call is pending. calls counts the calls of
\* analyzeGoal made so far (history); pending holds the numbers of those not
\* yet settled
UiInitial ==
    [isLoading |-> FALSE, result |-> Null, error |-> Null, lastInput |-> Null,
     pending |-> {}, calls |-> 0]

IdleHandler ==
    [pc |-> "idle", request |-> NoRequest, state |-> NoAgent, attempt |-> 0,
     lastError |-> NoError, response |-> NoResponse, invoked |-> <<>>,
     prompts |-> <<>>,
     succeeded |-> <<>>, delays |-> <<>>, inFlight |-> 0,
     validated |-> NotValidated, stepErrors |-> <<>>, answer |-> NoAnswer,
     twin |-> NoTwin]

\* Deno.env.get('LOVABLE_API_KEY'): unset, set to the empty string, or set
ApiKeys == {Undef, Str(""), Str("key")}

\* Variant: the key is never found missing
KeyNeverMissing(apiKey) == FALSE

\* !LOVABLE_API_KEY
KeyMissing(apiKey) == ~Truthy(apiKey)

Init ==
    /\ pc = "idle"
    /\ request = NoRequest
    /\ state = NoAgent
    /\ attempt = 0
    /\ lastError = NoError
    /\ response = NoResponse
    /\ invoked = <<>>
    /\ prompts = <<>>
    /\ succeeded = <<>>
    /\ delays = <<>>
    /\ inFlight = 0
    /\ validated = NotValidated
    /\ stepErrors = <<>>
    /\ answer = NoAnswer
    /\ fw = FwIdle
    /\ call = NoCall
    /\ twin = NoTwin
    /\ other = IdleHandler
    /\ ui = UiInitial

\* The handler's catch block: answer with the error
Respond(resp) ==
    /\ response' = resp
    /\ pc' = "responded"

\* serve, from the request to the construction of the agent: req.json(),
\* validateInput, the API key, new PlanningAgent
Request(body, apiKey) ==
    /\ pc = "idle"
    /\ request' = [body |-> body, apiKey |-> apiKey]
    /\ LET input == validateInput(body)
       IN IF body = InvalidJson
          THEN Respond(ErrorResponse(Error("SyntaxError"))) /\ UNCHANGED state
          ELSE IF ~input.ok
          THEN Respond(ErrorResponse(input.error)) /\ UNCHANGED state
          ELSE IF KeyMissing(apiKey)
          THEN Respond(ErrorResponse(Error("Lovable AI key is not configured")))
               /\ UNCHANGED state
          ELSE /\ state' = createAgentState(input.value)
               /\ pc' = "created"
               /\ UNCHANGED response
    /\ UNCHANGED <<attempt, lastError, invoked, prompts, succeeded, delays, inFlight, validated,
                   stepErrors, answer, fw, call>>

\* Variant: the loop variable of executeWithRetry is not initialised
RunStartKeepsAttempt ==
    /\ pc = "created"
    /\ state' = [state EXCEPT !.currentStep = "analyze_complexity"]
    /\ lastError' = NoError
    /\ invoked' = Append(invoked, "analyze_complexity")
    /\ prompts' = Append(prompts, UserPrompt("analyze_complexity", state))
    /\ inFlight' = inFlight + 1
    /\ pc' = "fetching"
    /\ UNCHANGED <<request, response, succeeded, delays, validated, stepErrors, answer,
                   fw, call, attempt>>

\* run() up to its first await: step 1 is entered and executeWithRetry calls
\* the executor, whose callLLM awaits fetch
RunStart ==
    /\ pc = "created"
    /\ state' = [state EXCEPT !.currentStep = "analyze_complexity"]
    /\ attempt' = 0
    /\ lastError' = NoError
    /\ invoked' = Append(invoked, "analyze_complexity")
    /\ prompts' = Append(prompts, UserPrompt("analyze_complexity", state))
    /\ inFlight' = inFlight + 1
    /\ pc' = "fetching"
    /\ UNCHANGED <<request, response, succeeded, delays, validated, stepErrors, answer, fw, call>>

\* Variant: when the attempts are used up the run goes on to the next step
LoopHeadMovesOn(a, err) ==
    /\ attempt' = a
    /\ invoked' = Append(invoked, IF MayAttempt(a, state.maxRetries) THEN state.currentStep
                                  ELSE NextStep(state.currentStep))
    /\ prompts' = Append(prompts, UserPrompt("analyze_complexity", state))
    /\ inFlight' = 1
    /\ pc' = "fetching"
    /\ UNCHANGED response

\* executeWithRetry at the head of its loop with loop variable a, no executor
\* running: either call fn() again or leave the loop and throw, which run()
\* rethrows and the handler answers
LoopHead(a, err) ==
    /\ attempt' = a
    /\ IF MayAttempt(a, state.maxRetries)
       THEN /\ invoked' = Append(invoked, state.currentStep)
            /\ prompts' = Append(prompts, UserPrompt(state.currentStep, state))
            /\ inFlight' = 1
            /\ pc' = "fetching"
            /\ UNCHANGED response
       ELSE /\ Respond(ErrorResponse(IF err = NoError
                                     THEN Error("Max retries exceeded") ELSE err))
            /\ inFlight' = 0
            /\ UNCHANGED <<invoked, prompts>>

\* Variant: storing the analysis also writes the priority of the input
StepReturnedWritesInput(step, value) ==
    /\ succeeded' = Append(succeeded, step)
    /\ \E stored \in {[state EXCEPT
                         !.input = IF step = "analyze_complexity"
                                   THEN Set(@, "priority", Str("low")) ELSE @,
                         !.partialResponse = StorePartial(@, step, value),
                         !.toolResults = Append(@, [name |-> ToolName(step),
                                                    result |-> value]),
                         !.currentStep = NextStep(step)]} :
         /\ state' = stored
         /\ IF stored.currentStep = "validate_output"
            THEN \E final \in {validateFullResponse(stored.partialResponse)} :
                   /\ validated' = final
                   /\ Respond(IF final.ok THEN SuccessResponse(final.value)
                              ELSE ErrorResponse(final.error))
                   /\ inFlight' = inFlight - 1
                   /\ UNCHANGED <<attempt, lastError, invoked, prompts, delays, stepErrors>>
            ELSE /\ attempt' = 0
                 /\ lastError' = NoError
                 /\ stepErrors' = <<>>
                 /\ invoked' = Append(invoked, stored.currentStep)
                 /\ prompts' = Append(prompts, UserPrompt(stored.currentStep, stored))
                 /\ inFlight' = inFlight
                 /\ pc' = "fetching"
                 /\ UNCHANGED <<response, delays, validated>>

\* run() after the executor of `step` returned `value`: the fragment is
\* stored and the next step entered; after the fourth step the final validation
StepReturned(step, value) ==
    /\ succeeded' = Append(succeeded, step)
    /\ \E stored \in {[state EXCEPT
                         !.partialResponse = StorePartial(@, step, value),
                         !.toolResults = Append(@, [name |-> ToolName(step),
                                                    result |-> value]),
                         !.currentStep = NextStep(step)]} :
         /\ state' = stored
         /\ IF stored.currentStep = "validate_output"
            THEN \E final \in {validateFullResponse(stored.partialResponse)} :
                   /\ validated' = final
                   /\ Respond(IF final.ok THEN SuccessResponse(final.value)
                              ELSE ErrorResponse(final.error))
                   /\ inFlight' = inFlight - 1
                   /\ UNCHANGED <<attempt, lastError, invoked, prompts, delays, stepErrors>>
            ELSE /\ attempt' = 0
                 /\ lastError' = NoError
                 /\ stepErrors' = <<>>
                 /\ invoked' = Append(invoked, stored.currentStep)
                 /\ prompts' = Append(prompts, UserPrompt(stored.currentStep, stored))
                 /\ inFlight' = inFlight
                 /\ pc' = "fetching"
                 /\ UNCHANGED <<response, delays, validated>>

\* Variant: only the gateway call is retried; an error raised after it
\* (parsing, validation) ends the step at once
StepThrewAfterHttpGivesUp(error) ==
    /\ lastError' = error
    /\ stepErrors' = Append(stepErrors, error)
    /\ IF WaitsAfter(attempt, state.maxRetries)
          /\ ~IsValidationError(error)
          /\ error # Error("Failed to parse LLM response as JSON")
       THEN /\ delays' = Append(delays, RetryDelay(attempt))
            /\ pc' = "backoff"
            /\ inFlight' = inFlight - 1
            /\ UNCHANGED <<attempt, invoked, prompts, response>>
       ELSE /\ LoopHead(state.maxRetries, error)
            /\ UNCHANGED delays
    /\ UNCHANGED <<state, succeeded, validated>>

\* Variant: lastError keeps the error of the first failed attempt
StepThrewKeepsFirstError(error) ==
    /\ stepErrors' = Append(stepErrors, error)
    /\ \E kept \in {IF lastError = NoError THEN error ELSE lastError} :
         /\ lastError' = kept
         /\ IF WaitsAfter(attempt, state.maxRetries)
            THEN /\ delays' = Append(delays, RetryDelay(attempt))
                 /\ pc' = "backoff"
                 /\ inFlight' = inFlight - 1
                 /\ UNCHANGED <<attempt, invoked, prompts, response>>
            ELSE /\ LoopHead(attempt + 1, kept)
                 /\ UNCHANGED delays
    /\ UNCHANGED <<state, succeeded, validated>>

\* executeWithRetry: the catch block
StepThrew(error) ==
    /\ lastError' = error
    /\ stepErrors' = Append(stepErrors, error)
    /\ IF WaitsAfter(attempt, state.maxRetries)
       THEN /\ delays' = Append(delays, RetryDelay(attempt))
            /\ pc' = "backoff"
            /\ inFlight' = inFlight - 1
            /\ UNCHANGED <<attempt, invoked, prompts, response>>
       ELSE /\ LoopHead(attempt + 1, error)
            /\ UNCHANGED delays
    /\ UNCHANGED <<state, succeeded, validated>>

\* The LLM call of the running executor settles: the executor parses and
\* validates; run() stores the fragment and enters the next step, or
\* executeWithRetry catches the error
Settle(outcome) ==
    /\ pc = "fetching"
    /\ \E result \in {Execute(state.currentStep, outcome)} :
         IF result.ok THEN StepReturned(state.currentStep, result.value)
         ELSE StepThrew(result.error)
    /\ answer' = outcome
    /\ UNCHANGED <<request, fw, call>>

\* The gateway answers the LLM call of the step that is running
SettleStep ==
    \E i \in 1..Len(ToolSteps) : \E outcome \in Answers(ToolSteps[i]) :
        pc = "fetching" /\ state.currentStep = ToolSteps[i] /\ Settle(outcome)

\* The backoff timer of executeWithRetry fires: the loop goes on
BackoffElapsed ==
    /\ pc = "backoff"
    /\ LoopHead(attempt + 1, lastError)
    /\ UNCHANGED <<request, state, lastError, succeeded, delays, validated, stepErrors,
                   answer, fw, call>>

Next ==
    \/ \E body \in Bodies, apiKey \in ApiKeys :
          Request(body, apiKey) /\ UNCHANGED <<twin, other, ui>>
    \/ RunStart /\ UNCHANGED <<twin, other, ui>>
    \/ SettleStep /\ UNCHANGED <<twin, other, ui>>
    \/ BackoffElapsed /\ UNCHANGED <<twin, other, ui>>

Spec == Init /\ [][Next]_vars

\* The handler with its progress assumptions: the runtime runs a handler
\* that can go on, every LLM call settles and every backoff timer fires
LiveSpec ==
    /\ Spec
    /\ WF_vars(RunStart /\ UNCHANGED <<twin, other, ui>>)
    /\ WF_vars(SettleStep /\ UNCHANGED <<twin, other, ui>>)
    /\ WF_vars(BackoffElapsed /\ UNCHANGED <<twin, other, ui>>)

----------------------------------------------------------------------------
(* The same request served twice against a gateway that answers from a     *)
(* script: the k-th LLM call of a run settles with the k-th outcome        *)

TwinBodies ==
    { Obj([goal |-> Str(<<" ", "g", "o", " ">>), priority |-> Str("medium"),
           timeAvailable |-> t]) : t \in {Undef, Str("2 weeks")} }
    \cup { Obj([goal |-> Str(<<" ", "g", "o", " ">>), priority |-> Str("urgent"),
                timeAvailable |-> Undef]) }

\* What the scripted gateway may answer to the LLM call of each step
TwinAnswers(step) ==
    CASE step = "analyze_complexity" ->
           { HttpError(500), Answer(Fenced(AnalysisA)), Answer(Bare(AnalysisB)),
             Answer(Bare(AnalysisShort)) }
      [] step = "generate_steps" ->
           { FetchRejects, Answer(Bare(StepsFour)), Answer(Bare(StepsEmpty)) }
      [] step = "identify_risks" ->
           { Answer(<<Word("not"), Space, Word("json")>>), Answer(Bare(RisksEmpty)),
             Answer(Bare(RisksA)) }
      [] step = "determine_next_action" ->
           { HttpError(429), Answer(Bare(NextA)), Answer(Bare(NextNoTimeframe)) }

\* The request arrives for the first time
FirstRequest ==
    \E body \in TwinBodies, apiKey \in ApiKeys :
        twin.run = 1 /\ Request(body, apiKey) /\ UNCHANGED <<twin, other, ui>>

\* The gateway settles an LLM call of the first run; the script records it
FirstSettle ==
    \E i \in 1..Len(ToolSteps) : \E outcome \in TwinAnswers(ToolSteps[i]) :
        /\ twin.run = 1
        /\ pc = "fetching" /\ state.currentStep = ToolSteps[i]
        /\ Settle(outcome)
        /\ twin' = [twin EXCEPT !.script = Append(@, outcome)]
        /\ UNCHANGED <<other, ui>>

\* The first run has answered; what it did is kept and the handler is free
\* again.  Nothing of the finished invocation is handed to the next one: the
\* agent and the locals of executeWithRetry are left as they were, the next
\* invocation creates and initialises its own.
Rerun ==
    /\ pc = "responded"
    /\ twin.run = 1
    /\ twin' = [run |-> 2, script |-> <<>>,
                first |-> [request |-> request, script |-> twin.script,
                           invoked |-> invoked, succeeded |-> succeeded,
                           delays |-> delays, response |-> response]]
    /\ pc' = "idle"
    /\ response' = NoResponse
    /\ invoked' = <<>>
    /\ prompts' = <<>>
    /\ succeeded' = <<>>
    /\ delays' = <<>>
    /\ inFlight' = 0
    /\ validated' = NotValidated
    /\ stepErrors' = <<>>
    /\ answer' = NoAnswer
    /\ UNCHANGED <<request, state, attempt, lastError, fw, call, other, ui>>

\* The same request arrives again
SecondRequest ==
    /\ twin.run = 2
    /\ Request(twin.first.request.body, twin.first.request.apiKey)
    /\ UNCHANGED <<twin, other, ui>>

\* The gateway settles the k-th LLM call of the second run as it settled the
\* k-th call of the first
SecondSettle ==
    /\ twin.run = 2
    /\ pc = "fetching"
    /\ Len(twin.script) < Len(twin.first.script)
    /\ Settle(twin.first.script[Len(twin.script) + 1])
    /\ twin' = [twin EXCEPT !.script = Append(@, twin.first.script[Len(twin.script) + 1])]
    /\ UNCHANGED <<other, ui>>

TwinNext ==
    \/ FirstRequest
    \/ RunStart /\ UNCHANGED <<twin, other, ui>>
    \/ FirstSettle
    \/ BackoffElapsed /\ UNCHANGED <<twin, other, ui>>
    \/ Rerun
    \/ SecondRequest
    \/ SecondSettle

TwinSpec == Init /\ [][TwinNext]_vars

----------------------------------------------------------------------------
(* Two requests served concurrently.  The handler is an async function:    *)
(* all it works on (body, input, agent, the locals of executeWithRetry)    *)
(* lives in its own invocation, and control passes to another invocation   *)
(* only at an await.  The variables of the module hold the invocation that *)
(* is running, `other` the one that is waiting.                            *)

ConcBodies ==
    { Obj([goal |-> Str(g), priority |-> Str("medium"), timeAvailable |-> Undef]) :
        g \in { <<"g", "o">>, <<"a">> } }

ConcAnswers(step) ==
    CASE step = "analyze_complexity" ->
           { HttpError(500), Answer(Fenced(AnalysisA)), Answer(Bare(AnalysisB)) }
      [] step = "generate_steps" -> { Answer(Bare(StepsA)), Answer(Bare(StepsEmpty)) }
      [] step = "identify_risks" -> { Answer(Bare(RisksEmpty)) }
      [] step = "determine_next_action" -> { Answer(Bare(NextA)) }

\* The invocation that is running
Handler ==
    [pc |-> pc, request |-> request, state |-> state, attempt |-> attempt,
     lastError |-> lastError, response |-> response, invoked |-> invoked,
     prompts |-> prompts,
     succeeded |-> succeeded, delays |-> delays, inFlight |-> inFlight,
     validated |-> validated, stepErrors |-> stepErrors, answer |-> answer,
     twin |-> twin]

\* The places where the handler awaits: req.json(), fetch, the backoff timer
AtAwait == pc \in {"idle", "fetching", "backoff"}

\* Variant: the agent state is one object shared by all invocations
SwitchSharesAgent ==
    /\ twin.run = 1
    /\ AtAwait \/ pc = "responded"
    /\ other.pc # "responded"
    /\ other' = Handler
    /\ \E h \in {other} :
         /\ pc' = h.pc
         /\ request' = h.request
         /\ attempt' = h.attempt
         /\ lastError' = h.lastError
         /\ response' = h.response
         /\ invoked' = h.invoked
         /\ prompts' = h.prompts
         /\ succeeded' = h.succeeded
         /\ delays' = h.delays
         /\ inFlight' = h.inFlight
         /\ validated' = h.validated
         /\ stepErrors' = h.stepErrors
         /\ answer' = h.answer
         /\ twin' = h.twin
    /\ UNCHANGED <<state, fw, call, ui>>

\* The running invocation waits (or has answered) and the other one, which
\* has not answered yet, goes on
Switch ==
    /\ twin.run = 1
    /\ AtAwait \/ pc = "responded"
    /\ other.pc # "responded"
    /\ other' = Handler
    /\ \E h \in {other} :
         /\ pc' = h.pc
         /\ request' = h.request
         /\ state' = h.state
         /\ attempt' = h.attempt
         /\ lastError' = h.lastError
         /\ response' = h.response
         /\ invoked' = h.invoked
         /\ prompts' = h.prompts
         /\ succeeded' = h.succeeded
         /\ delays' = h.delays
         /\ inFlight' = h.inFlight
         /\ validated' = h.validated
         /\ stepErrors' = h.stepErrors
         /\ answer' = h.answer
         /\ twin' = h.twin
    /\ UNCHANGED <<fw, call, ui>>

\* A request arrives at the running invocation
ConcRequest ==
    \E body \in ConcBodies :
        twin.run = 1 /\ Request(body, Str("key")) /\ UNCHANGED <<twin, other, ui>>

\* The gateway settles the LLM call of the running invocation
ConcSettle ==
    \E i \in 1..Len(ToolSteps) : \E outcome \in ConcAnswers(ToolSteps[i]) :
        /\ twin.run = 1
        /\ pc = "fetching" /\ state.currentStep = ToolSteps[i]
        /\ Settle(outcome)
        /\ twin' = [twin EXCEPT !.script = Append(@, outcome)]
        /\ UNCHANGED <<other, ui>>

\* Two invocations interleaved; then the request of the one that answered
\* while running is served once more, alone, against the outcomes its LLM
\* calls had
ConcNext ==
    \/ ConcRequest
    \/ RunStart /\ UNCHANGED <<twin, other, ui>>
    \/ ConcSettle
    \/ BackoffElapsed /\ UNCHANGED <<twin, other, ui>>
    \/ Switch
    \/ Rerun
    \/ SecondRequest
    \/ SecondSettle

ConcSpec == Init /\ [][ConcNext]_vars

----------------------------------------------------------------------------
(* The gateway client fetchWithRetry *)

\* The largest maxRetries argument explored
MaxRetriesArg == 3

BaseDelays == {500, 1000}

\* What one fetch settles with: a rejection or a response with a status
FetchOutcomes ==
    { FetchRejects } \cup
    { [kind |-> "response", status |-> s] : s \in {200, 204, 304, 404, 429, 500} }

\* An Error object raised inside fetchWithRetry; raisedAt is the 0-based
\* attempt that created it (history, not part of the JavaScript object)
FwError(message, raisedAt) == [name |-> "Error", message |-> message, raisedAt |-> raisedAt]

\* throw lastError || new Error('Max retries exceeded')
FwThrown(f) ==
    IF f.lastError = NoError THEN FwError("Max retries exceeded", -1) ELSE f.lastError

\* Variant: the loop runs once more
FwLoopHeadOnceMore(f) ==
    IF f.attempt <= f.maxRetries
    THEN [f EXCEPT !.pc = "fetching", !.fetches = @ + 1]
    ELSE [f EXCEPT !.pc = "thrown", !.result = FwThrown(f)]

\* The head of the for loop: fetch again while attempt < maxRetries, else throw
FwLoopHead(f) ==
    IF f.attempt < f.maxRetries
    THEN [f EXCEPT !.pc = "fetching", !.fetches = @ + 1]
    ELSE [f EXCEPT !.pc = "thrown", !.result = FwThrown(f)]

\* Variant: a rate limit waits no longer than a server error; the delay
\* after a server error does not grow
RateLimitDelayNotDoubled(baseDelay, a) == baseDelay * (2 ^ a)
ServerErrorDelayFixed(baseDelay, a) == baseDelay

\* Variant: the delay after a caught error does not grow
CatchDelayFixed(baseDelay, a) == baseDelay

\* The delays of the three branches that wait
RateLimitDelay(baseDelay, a) == baseDelay * (2 ^ a) * 2
ServerErrorDelay(baseDelay, a) == baseDelay * (2 ^ a)
CatchDelay(baseDelay, a) == baseDelay * (2 ^ a)

\* await new Promise(resolve => setTimeout(resolve, delay))
FwWait(f, delay) == [f EXCEPT !.pc = "waiting", !.waits = Append(@, delay)]

\* The catch block
FwCatch(f, error) ==
    IF f.attempt < f.maxRetries - 1
    THEN FwWait([f EXCEPT !.lastError = error], CatchDelay(f.baseDelay, f.attempt))
    ELSE FwLoopHead([f EXCEPT !.lastError = error, !.attempt = @ + 1])

\* The try block after `await fetch(url, options)` settled with a response
FwOnResponse(f, r) ==
    IF ResponseOk(r)
    THEN [f EXCEPT !.pc = "returned", !.result = r]
    ELSE IF r.status = 429
    THEN FwWait(f, RateLimitDelay(f.baseDelay, f.attempt))
    ELSE IF r.status >= 400 /\ r.status < 500
    THEN FwCatch(f, FwError("API error " \o ToString(r.status), f.attempt))
    ELSE IF r.status >= 500
    THEN FwWait(f, ServerErrorDelay(f.baseDelay, f.attempt))
    ELSE FwLoopHead([f EXCEPT !.attempt = @ + 1])

\* fetchWithRetry(url, options, maxRetries, baseDelay) up to its first await
FetchWithRetryCall(maxRetries, baseDelay) ==
    /\ fw.pc = "idle"
    /\ fw' = FwLoopHead([pc |-> "called", attempt |-> 0, lastError |-> NoError,
                         maxRetries |-> maxRetries, baseDelay |-> baseDelay,
                         fetches |-> 0, waits |-> <<>>, outcomes |-> <<>>,
                         result |-> NoResponse])
    /\ UNCHANGED <<agentVars, call, twin, other, ui>>

\* The fetch in flight settles
FetchSettles(outcome) ==
    /\ fw.pc = "fetching"
    /\ fw' = IF outcome.kind = "reject"
             THEN FwCatch([fw EXCEPT !.outcomes = Append(@, outcome)],
                          FwError("fetch failed", fw.attempt))
             ELSE FwOnResponse([fw EXCEPT !.outcomes = Append(@, outcome)], outcome)
    /\ UNCHANGED <<agentVars, call, twin, other, ui>>

\* The timer of a wait fires: `continue`, or the end of the catch block
FetchTimerFires ==
    /\ fw.pc = "waiting"
    /\ fw' = FwLoopHead([fw EXCEPT !.attempt = @ + 1])
    /\ UNCHANGED <<agentVars, call, twin, other, ui>>

FetchNext ==
    \/ \E maxRetries \in 1..MaxRetriesArg, baseDelay \in BaseDelays :
          FetchWithRetryCall(maxRetries, baseDelay)
    \/ \E outcome \in FetchOutcomes : FetchSettles(outcome)
    \/ FetchTimerFires

FetchSpec == Init /\ [][FetchNext]_vars

\* fetchWithRetry with its progress assumptions: every fetch settles and
\* every timer fires
FetchLiveSpec ==
    /\ FetchSpec
    /\ WF_vars(\E outcome \in FetchOutcomes : FetchSettles(outcome))
    /\ WF_vars(FetchTimerFires)

----------------------------------------------------------------------------
(* Properties of the orchestrator and the handler *)

Range(seq) == { seq[i] : i \in 1..Len(seq) }
Last(seq) == seq[Len(seq)]
Count(seq, x) == Cardinality({ i \in 1..Len(seq) : seq[i] = x })

Responded == pc = "responded"
Succeeded == Responded /\ response.status = 200
AgentExists == state # NoAgent

\* The schema of each entity of §3, stated on the value itself
GoalAnalysisSchema(g) ==
    /\ g.t = "object"
    /\ DOMAIN g.v = {"summary", "category", "complexity"}
    /\ g.v.summary.t = "string" /\ Len(g.v.summary.v) >= 10
    /\ g.v.category.t = "string" /\ g.v.category.v # ""
    /\ g.v.complexity \in {Str("simple"), Str("moderate"), Str("complex")}

ActionStepSchema(a) ==
    /\ a.t = "object"
    /\ DOMAIN a.v = {"stepNumber", "title", "description", "estimatedTime", "dependencies"}
    /\ a.v.stepNumber.t = "number" /\ a.v.stepNumber.n >= a.v.stepNumber.d
    /\ a.v.title.t = "string" /\ a.v.title.v # ""
    /\ a.v.description.t = "string" /\ a.v.description.v # ""
    /\ a.v.estimatedTime.t = "string"
    /\ a.v.dependencies.t = "array"

RiskSchema(r) ==
    /\ r.t = "object"
    /\ DOMAIN r.v = {"id", "title", "severity", "mitigation"}
    /\ r.v.id.t = "string"
    /\ r.v.title.t = "string" /\ r.v.title.v # ""
    /\ r.v.severity \in {Str("low"), Str("medium"), Str("high")}
    /\ r.v.mitigation.t = "string" /\ r.v.mitigation.v # ""

NextActionSchema(n) ==
    /\ n.t = "object"
    /\ DOMAIN n.v = {"action", "reasoning", "timeframe"}
    /\ n.v.action.t = "string" /\ n.v.action.v # ""
    /\ n.v.reasoning.t = "string" /\ n.v.reasoning.v # ""
    /\ n.v.timeframe.t = "string" /\ n.v.timeframe.v # ""

AgentResponseSchema(r) ==
    /\ r.t = "object"
    /\ DOMAIN r.v = {"goalAnalysis", "actionSteps", "totalEstimatedTime", "risks",
                     "nextImmediateAction"}
    /\ GoalAnalysisSchema(r.v.goalAnalysis)
    /\ r.v.actionSteps.t = "array" /\ Len(r.v.actionSteps.v) > 0
    /\ \A i \in 1..Len(r.v.actionSteps.v) : ActionStepSchema(r.v.actionSteps.v[i])
    /\ r.v.totalEstimatedTime.t = "string"
    /\ r.v.risks.t = "array"
    /\ \A i \in 1..Len(r.v.risks.v) : RiskSchema(r.v.risks.v[i])
    /\ NextActionSchema(r.v.nextImmediateAction)

StepOrder ==
    <<"initialize", "analyze_complexity", "generate_steps", "identify_risks",
      "determine_next_action", "validate_output", "done">>

Position(step) == CHOOSE i \in 1..Len(StepOrder) : StepOrder[i] = step

\* C2: the current step only moves from a state of StepOrder to the one right
\* after it (so none is skipped or entered twice), it starts at initialize, a
\* tool step after the first is entered only when exactly the steps before it
\* have returned, every invocation runs the executor of the current step, and
\* at most one invocation is in flight.
C2_StepsInOrder ==
    [][ /\ (~AgentExists /\ AgentExists') => state'.currentStep = "initialize"
        /\ (AgentExists /\ state'.currentStep # state.currentStep) =>
              /\ state.currentStep \in Range(StepOrder)
              /\ state'.currentStep \in Range(StepOrder)
              /\ Position(state'.currentStep) = Position(state.currentStep) + 1
              /\ succeeded' = SubSeq(ToolSteps, 1, Position(state.currentStep) - 1)
        /\ (AgentExists /\ state'.currentStep = state.currentStep) => succeeded' = succeeded
        /\ invoked' # invoked =>
              /\ invoked' = Append(invoked, state'.currentStep)
              /\ inFlight = 0 \/ succeeded' # succeeded
        /\ inFlight' \in {0, 1}
        /\ inFlight' = 1 <=> pc' = "fetching"
      ]_vars

\* C2 witness: every step needed all its attempts and the run reached the
\* final validation
C2_Witness ==
    /\ AgentExists
    /\ state.currentStep = "validate_output"
    /\ \A i \in 1..Len(ToolSteps) : Count(invoked, ToolSteps[i]) = DefaultMaxRetries

\* The run has failed in tool step k: the handler has answered while the
\* current step was still step k
FailedAt(k) == Responded /\ AgentExists /\ state.currentStep = ToolSteps[k]

ServerError500 == Error("LLM API error 500")

\* C3: no executor of a step after the current one has been invoked; when
\* step k has used up its attempts the run answers with a failure, no later
\* step has been invoked and none is invoked afterwards; when every attempt
\* of generate_steps got a 500 the answer is 500 AGENT_ERROR.
C3_FailFast ==
    /\ [](/\ \A i \in 1..Len(invoked) :
                AgentExists /\ Position(invoked[i]) <= Position(state.currentStep)
          /\ \A k \in 1..Len(ToolSteps) : FailedAt(k) =>
                /\ Len(stepErrors) = DefaultMaxRetries
                /\ response.status # 200
                /\ validated = NotValidated
                /\ \A j \in (k+1)..Len(ToolSteps) : ToolSteps[j] \notin Range(invoked)
                /\ (k = 2 /\ \A i \in 1..Len(stepErrors) : stepErrors[i] = ServerError500) =>
                      /\ response.status = 500
                      /\ response.body.code = "AGENT_ERROR")
    /\ [][Responded => (invoked' = invoked /\ Responded')]_vars

\* C3 witness: generate_steps got a 500 on each of its three attempts
C3_Witness ==
    /\ FailedAt(2)
    /\ stepErrors = <<ServerError500, ServerError500, ServerError500>>

\* C4: no step's executor is invoked more than 3 times, every step reached
\* has been invoked, the attempt counter counts the earlier attempts of the
\* current step alone (so it restarts at 0), and a step that fails has had
\* its 3 attempts whatever the earlier steps used.
C4_RetryPerStep ==
    /\ \A k \in 1..Len(ToolSteps) : Count(invoked, ToolSteps[k]) <= DefaultMaxRetries
    /\ AgentExists =>
          /\ state.maxRetries = DefaultMaxRetries
          /\ \A k \in 1..Len(ToolSteps) :
                Position(ToolSteps[k]) <= Position(state.currentStep) =>
                    Count(invoked, ToolSteps[k]) >= 1
    /\ pc \in {"fetching", "backoff"} =>
          /\ attempt = Count(invoked, state.currentStep) - 1
          /\ attempt = Len(stepErrors) - (IF pc = "backoff" THEN 1 ELSE 0)
    /\ \A k \in 1..Len(ToolSteps) :
          FailedAt(k) => Count(invoked, ToolSteps[k]) = DefaultMaxRetries

\* C4 witness: the first step succeeded on its third attempt and the second
\* step still had, and used up, three attempts
C4_Witness ==
    /\ FailedAt(2)
    /\ Count(invoked, "analyze_complexity") = DefaultMaxRetries
    /\ Count(invoked, "generate_steps") = DefaultMaxRetries

\* The request input was rejected by validateInput
InputRejected ==
    /\ request # NoRequest
    /\ request.body # InvalidJson
    /\ ~validateInput(request.body).ok

\* C5 as claimed: a failure is answered 400 VALIDATION_ERROR exactly when the
\* request input is invalid, and 500 AGENT_ERROR in every other case.
C5_StatusByErrorKind ==
    (Responded /\ response.status # 200) =>
        IF InputRejected
        THEN /\ response.status = 400
             /\ response.body.code = "VALIDATION_ERROR"
             /\ response.body.field = Str(validateInput(request.body).error.field)
        ELSE /\ response.status = 500
             /\ response.body.code = "AGENT_ERROR"

\* What makes a request body malformed, field by field
GoalMalformed(body) ==
    \/ body.v.goal.t # "string"
    \/ \A i \in 1..Len(body.v.goal.v) : body.v.goal.v[i] \in WhiteSpace
    \/ Len(body.v.goal.v) > 1000

PriorityMalformed(body) ==
    body.v.priority \notin {Str("low"), Str("medium"), Str("high"), Str("critical")}

TimeAvailableMalformed(body) == body.v.timeAvailable.t \notin {"undefined", "string"}

FirstMalformedField(body) ==
    IF GoalMalformed(body) THEN "goal"
    ELSE IF PriorityMalformed(body) THEN "priority"
    ELSE "timeAvailable"

\* C6: a request whose body is malformed is answered 400 VALIDATION_ERROR
\* with the first malformed field in the order goal, priority, timeAvailable;
\* no agent is created and no LLM call is made.
C6_MalformedInput ==
    (/\ request # NoRequest
     /\ request.body.t = "object"
     /\ \/ GoalMalformed(request.body)
        \/ PriorityMalformed(request.body)
        \/ TimeAvailableMalformed(request.body)) =>
        /\ validateInput(request.body) =
              Throw(validateInput(request.body).error)
        /\ validateInput(request.body).error.name = "ValidationError"
        /\ validateInput(request.body).error.field = FirstMalformedField(request.body)
        /\ Responded
        /\ response.status = 400
        /\ response.body.code = "VALIDATION_ERROR"
        /\ response.body.field = Str(FirstMalformedField(request.body))
        /\ state = NoAgent
        /\ invoked = <<>>

\* C6 witness: a whitespace-only goal, together with a bad priority and a
\* timeAvailable that is no string, has been answered
C6_Witness ==
    /\ Responded
    /\ request.body.t = "object"
    /\ request.body.v.goal = Str(<<" ", " ">>)
    /\ PriorityMalformed(request.body)
    /\ TimeAvailableMalformed(request.body)
    /\ response.body.field = Str("goal")

----------------------------------------------------------------------------
(* Properties of fetchWithRetry *)

FwCalled == fw.pc # "idle"

Status(outcome) == IF outcome.kind = "response" THEN outcome.status ELSE 0

IsClientError(outcome) ==
    Status(outcome) >= 400 /\ Status(outcome) < 500 /\ Status(outcome) # 429

\* After the wait that followed the latest response the loop either fetches
\* once more or, the attempts used up, the call has failed
RetriedAfterWait ==
    fw.pc # "waiting" =>
        IF Len(fw.outcomes) < fw.maxRetries
        THEN fw.pc = "fetching" /\ fw.fetches = Len(fw.outcomes) + 1
        ELSE fw.pc = "thrown" /\ fw.fetches = Len(fw.outcomes)

\* C7 as claimed: once a fetch has returned a 4xx status other than 429 the
\* call has failed, with no later fetch and no wait after that response.
C7_ClientErrorNotRetried ==
    FwCalled =>
        \A i \in 1..Len(fw.outcomes) : IsClientError(fw.outcomes[i]) =>
            /\ fw.pc = "thrown"
            /\ fw.fetches = i
            /\ Len(fw.waits) < i

\* C8: after a 429 at 0-based attempt a the call waits baseDelay * 2^a * 2 and
\* then fetches again while attempts remain; the responses 429, 429, 200 with
\* the defaults give 3 fetches, waits of 2000 and 4000 ms and the 200 response.
C8_RateLimitBackoff ==
    FwCalled =>
        /\ (fw.outcomes # <<>> /\ Status(Last(fw.outcomes)) = 429) =>
              /\ fw.waits # <<>>
              /\ Last(fw.waits) = fw.baseDelay * (2 ^ (Len(fw.outcomes) - 1)) * 2
              /\ RetriedAfterWait
        /\ (/\ fw.maxRetries = 3
            /\ fw.baseDelay = 1000
            /\ Len(fw.outcomes) = 3
            /\ Status(fw.outcomes[1]) = 429
            /\ Status(fw.outcomes[2]) = 429
            /\ Status(fw.outcomes[3]) = 200) =>
              /\ fw.pc = "returned"
              /\ fw.result = fw.outcomes[3]
              /\ fw.fetches = 3
              /\ fw.waits = <<2000, 4000>>

\* C8 witness: the call has returned the 200 that followed two 429 responses
C8_Witness ==
    /\ fw.pc = "returned"
    /\ fw.maxRetries = 3
    /\ fw.baseDelay = 1000
    /\ fw.outcomes = <<[kind |-> "response", status |-> 429],
                       [kind |-> "response", status |-> 429],
                       [kind |-> "response", status |-> 200]>>

\* C9: after a 5xx at 0-based attempt a the call waits baseDelay * 2^a and
\* fetches again while attempts remain; no more than maxRetries fetches are
\* made; with a limit of 3 and a 500 each time there are exactly 3 fetches,
\* nothing is returned and the call fails.
C9_ServerErrorBackoff ==
    FwCalled =>
        /\ fw.fetches <= fw.maxRetries
        /\ (fw.outcomes # <<>> /\ Status(Last(fw.outcomes)) >= 500) =>
              /\ fw.waits # <<>>
              /\ Last(fw.waits) = fw.baseDelay * (2 ^ (Len(fw.outcomes) - 1))
              /\ RetriedAfterWait
        /\ (fw.maxRetries = 3 /\ \A i \in 1..Len(fw.outcomes) : Status(fw.outcomes[i]) = 500) =>
              /\ fw.pc # "returned"
              /\ fw.result = NoResponse \/ fw.pc = "thrown"
              /\ fw.pc = "thrown" =>
                    /\ fw.fetches = 3
                    /\ Len(fw.outcomes) = 3
                    /\ fw.result.name = "Error"
                    /\ fw.waits = <<fw.baseDelay, 2 * fw.baseDelay, 4 * fw.baseDelay>>

\* C9 witness: three 500 responses with a limit of 3, and the call has failed
C9_Witness ==
    /\ fw.pc = "thrown"
    /\ fw.maxRetries = 3
    /\ Len(fw.outcomes) = 3
    /\ \A i \in 1..3 : Status(fw.outcomes[i]) = 500

\* C10 as claimed: the call returns a 2xx response or throws the error of the
\* final attempt made.
C10_ThrowsLastObservedError ==
    /\ fw.pc = "returned" => ResponseOk(fw.result)
    /\ fw.pc = "thrown" => fw.result.raisedAt = Len(fw.outcomes) - 1

\* C11: when the fetch of 0-based attempt a rejects and attempts remain the
\* call waits baseDelay * 2^a and fetches again; when every attempt rejects,
\* exactly maxRetries fetches are made and the error thrown is the one of the
\* last attempt.
C11_NetworkFailureBackoff ==
    FwCalled =>
        /\ (fw.outcomes # <<>> /\ Last(fw.outcomes) = FetchRejects) =>
              IF Len(fw.outcomes) < fw.maxRetries
              THEN /\ Len(fw.waits) = Cardinality({ i \in 1..Len(fw.outcomes) :
                                                      Status(fw.outcomes[i]) \notin 200..399 })
                   /\ Last(fw.waits) = fw.baseDelay * (2 ^ (Len(fw.outcomes) - 1))
                   /\ RetriedAfterWait
              ELSE /\ fw.pc = "thrown"
                   /\ fw.fetches = fw.maxRetries
                   /\ fw.result.raisedAt = fw.maxRetries - 1
                   /\ Len(fw.waits) < fw.maxRetries
        /\ (fw.pc = "thrown" /\ \A i \in 1..Len(fw.outcomes) : fw.outcomes[i] = FetchRejects) =>
              /\ fw.fetches = fw.maxRetries
              /\ Len(fw.outcomes) = fw.maxRetries
              /\ fw.result = FwError("fetch failed", fw.maxRetries - 1)
              /\ fw.waits = [a \in 1..(fw.maxRetries - 1) |-> fw.baseDelay * (2 ^ (a - 1))]

\* C11 witness: three fetches rejected with a limit of 3, and the call has
\* thrown
C11_Witness ==
    /\ fw.pc = "thrown"
    /\ fw.maxRetries = 3
    /\ fw.outcomes = <<FetchRejects, FetchRejects, FetchRejects>>

\* C12: once a fetch has settled with a 2xx response the call has returned
\* that response: it is the last fetch made and no wait was started after it.
C12_SuccessReturnedAtOnce ==
    FwCalled =>
        \A i \in 1..Len(fw.outcomes) :
            (Status(fw.outcomes[i]) >= 200 /\ Status(fw.outcomes[i]) < 300) =>
                /\ i = Len(fw.outcomes)
                /\ fw.pc = "returned"
                /\ fw.result = fw.outcomes[i]
                /\ fw.fetches = i
                /\ Len(fw.waits) < i

\* C12 witness: a 204 response has been returned after a rejected fetch
C12_Witness ==
    /\ fw.pc = "returned"
    /\ Len(fw.outcomes) = 2
    /\ fw.outcomes[1] = FetchRejects
    /\ Status(fw.outcomes[2]) = 204

----------------------------------------------------------------------------
(* Properties of retrying and of errors in the orchestrator *)

ParseError == Error("Failed to parse LLM response as JSON")

\* The error was raised by an executor after its HTTP call had succeeded
RaisedAfterHttp(error) == error = ParseError \/ IsValidationError(error)

\* C13: when an attempt fails on parsing or validating the text of a
\* successful HTTP call and attempts remain, the step is not given up: after
\* the backoff the executor is invoked again with a new LLM call in flight;
\* the outcome of an attempt is that of parsing and validating the answer to
\* its own call, so a valid fragment makes the step succeed whatever the
\* earlier answers were.
C13_RetryWrapsExecutor ==
    /\ [][ /\ (/\ pc = "fetching"
               /\ Len(stepErrors') = Len(stepErrors) + 1
               /\ RaisedAfterHttp(Last(stepErrors'))
               /\ Len(stepErrors') < state.maxRetries) =>
                  /\ pc' = "backoff"
                  /\ state' = state
                  /\ inFlight' = 0
           /\ pc = "backoff" =>
                  /\ pc' = "fetching"
                  /\ inFlight' = 1
                  /\ invoked' = Append(invoked, state.currentStep)
                  /\ attempt' = attempt + 1
                  /\ state' = state
         ]_vars
    /\ [][ pc = "fetching" =>
             /\ answer' \in Answers(state.currentStep)
             /\ IF Execute(state.currentStep, answer').ok
                THEN /\ succeeded' = Append(succeeded, state.currentStep)
                     /\ Last(state'.toolResults).result =
                           Execute(state.currentStep, answer').value
                ELSE /\ succeeded' = succeeded
                     /\ Last(stepErrors') = Execute(state.currentStep, answer').error
         ]_vars

\* C13 witness: the last step succeeded on its third attempt, after one text
\* that did not parse and one fragment that failed validation
C13_Witness ==
    /\ Succeeded
    /\ Len(stepErrors) = 2
    /\ stepErrors[1] = ParseError
    /\ IsValidationError(stepErrors[2])

\* C14 as claimed: an executor attempt that raised a ValidationError is the
\* last attempt of its step (the step is not invoked again) and the handler
\* has answered 400; a ValidationError on the request input is answered 400
\* with no agent created.
C14_ValidationErrorNotRetried ==
    /\ \A i \in 1..Len(stepErrors) :
          IsValidationError(stepErrors[i]) =>
              /\ i = Len(stepErrors)
              /\ Count(invoked, state.currentStep) = i
              /\ Responded
              /\ response.status = 400
    /\ InputRejected => (Responded /\ response.status = 400 /\ state = NoAgent)

\* C15: when a step has used up its attempts the run has failed with the
\* error thrown by the last attempt of that step, which is the error the
\* handler answers with, and the current step is still the step whose
\* executor failed (the last one invoked).
C15_LastErrorAndStep ==
    \A k \in 1..Len(ToolSteps) : FailedAt(k) =>
        /\ Len(stepErrors) = state.maxRetries
        /\ lastError = Last(stepErrors)
        /\ Last(stepErrors) = Execute(ToolSteps[k], answer).error
        /\ response = ErrorResponse(Last(stepErrors))
        /\ response.body.message = Last(stepErrors).message
        /\ state.currentStep = Last(invoked)
        /\ succeeded = SubSeq(ToolSteps, 1, k - 1)

\* C15 witness: the second step failed with three different errors
C15_Witness ==
    /\ FailedAt(2)
    /\ stepErrors[1] # stepErrors[3]
    /\ stepErrors[2] # stepErrors[3]
    /\ response.body.message = stepErrors[3].message

RequestValid ==
    /\ request # NoRequest
    /\ request.body # InvalidJson
    /\ validateInput(request.body).ok

\* C16: a valid request arriving while the API key is not set is answered
\* 500 AGENT_ERROR; no agent is created, no executor is invoked and no LLM
\* call is made or answered.
C16_MissingApiKey ==
    (request # NoRequest /\ request.apiKey \in {Undef, Str("")} /\ RequestValid) =>
        /\ Responded
        /\ response.status = 500
        /\ response.body.code = "AGENT_ERROR"
        /\ response.body.message = "Lovable AI key is not configured"
        /\ state = NoAgent
        /\ invoked = <<>>
        /\ inFlight = 0
        /\ answer = NoAnswer

\* C16 witness: a valid request with a timeAvailable was answered while the
\* key was unset
C16_Witness ==
    /\ request # NoRequest
    /\ request.apiKey = Undef
    /\ RequestValid
    /\ request.body.v.timeAvailable = Str("2 weeks")
    /\ Responded

----------------------------------------------------------------------------
(* Calls of the validators and of the parser on their own *)

\* delete o.k
Remove(o, k) == Obj([f \in DOMAIN o.v \ {k} |-> o.v[f]])

\* A value of another type than `value`
Mistyped(value) == IF value.t = "string" THEN Num(7, 1) ELSE Str("7")

\* The ways one field of an object is spoilt
DefectKinds == {"missing", "mistyped", "null"}

Defective(o, k, kind) ==
    CASE kind = "missing" -> Remove(o, k)
      [] kind = "mistyped" -> Set(o, k, Mistyped(o.v[k]))
      [] kind = "null" -> Set(o, k, Null)

\* Element `index` (0-based) of the array o.k gets field `field` spoilt
DefectiveElement(o, k, index, field, kind) ==
    Set(o, k, Arr([o.v[k].v EXCEPT ![index + 1] = Defective(@, field, kind)]))

AnalysisMin ==
    Obj([summary |-> Str("Ten chars!"), category |-> Str("x"), complexity |-> Str("simple")])

RiskB ==
    Obj([id |-> Str(""), title |-> Str("Sore fingers"), severity |-> Str("low"),
         mitigation |-> Str("Short sessions")])

RisksTwo == Obj([risks |-> Arr(<<RiskA, RiskB>>)])

\* The four fragments the tools ask the LLM for
FragmentKinds == {"goalAnalysis", "steps", "risks", "nextAction"}

FragmentExamples(kind) ==
    CASE kind = "goalAnalysis" -> {AnalysisA, AnalysisMin}
      [] kind = "steps" -> {StepsA}
      [] kind = "risks" -> {RisksTwo}
      [] kind = "nextAction" -> {NextA}

\* The array of a fragment that has one, and the fields of its elements
FragmentArray(kind) == IF kind = "steps" THEN "steps" ELSE "risks"

ElementFields(kind) ==
    IF kind = "steps"
    THEN {"stepNumber", "title", "description", "estimatedTime", "dependencies"}
    ELSE {"id", "title", "severity", "mitigation"}

\* The fields of a fragment: index -1 for a field of the fragment itself
FragmentFields(kind, example) ==
    { [index |-> -1, field |-> f] : f \in DOMAIN example.v }
    \cup IF kind \in {"steps", "risks"}
         THEN { [index |-> i, field |-> f] :
                  i \in 0..(Len(example.v[FragmentArray(kind)].v) - 1),
                  f \in ElementFields(kind) }
         ELSE {}

NoDefect == [index |-> -1, field |-> "", kind |-> "none"]

SpoiltFragment(kind, example, d) ==
    IF d = NoDefect THEN example
    ELSE IF d.index = -1 THEN Defective(example, d.field, d.kind)
    ELSE DefectiveElement(example, FragmentArray(kind), d.index, d.field, d.kind)

\* What each executor does with the parsed answer
FragmentValidation(kind, parsed) ==
    CASE kind = "goalAnalysis" -> validateGoalAnalysis(parsed)
      [] kind = "steps" -> GenerateStepsResult(parsed)
      [] kind = "risks" -> IdentifyRisksResult(parsed)
      [] kind = "nextAction" -> validateNextAction(parsed)

\* An executor validates a fragment that has at most one field spoilt
ValidateFragment ==
    /\ call = NoCall
    /\ \E kind \in FragmentKinds : \E example \in FragmentExamples(kind) :
         \E d \in {NoDefect} \cup
                  { [index |-> x.index, field |-> x.field, kind |-> k] :
                      x \in FragmentFields(kind, example), k \in DefectKinds } :
           \E parsed \in {SpoiltFragment(kind, example, d)} :
             call' = [fn |-> kind, defect |-> d, arg |-> parsed,
                      result |-> FragmentValidation(kind, parsed)]
    /\ UNCHANGED <<agentVars, fw, twin, other, ui>>

\* An assembled response with every field valid
FullA ==
    Obj([goalAnalysis |-> AnalysisA,
         actionSteps |-> Arr(<<StepOne, StepTwo>>),
         totalEstimatedTime |-> Str("2 weeks"),
         risks |-> Arr(<<RiskA, RiskB>>),
         nextImmediateAction |-> NextA])

\* The places of an assembled response that can be spoilt: a whole section
\* (field ""), a field of an object section, a field of an array element
Site(section, index, field) == [section |-> section, index |-> index, field |-> field]

ObjectSites(section, fields) ==
    <<Site(section, -1, "")>> \o [j \in 1..Len(fields) |-> Site(section, -1, fields[j])]

ArraySites(section, n, fields) ==
    <<Site(section, -1, "")>> \o
    [k \in 1..(n * Len(fields)) |->
        Site(section, (k - 1) \div Len(fields), fields[((k - 1) % Len(fields)) + 1])]

\* The sites in the order validateFullResponse looks at them
Sites ==
    ObjectSites("goalAnalysis", <<"summary", "category", "complexity">>)
    \o ArraySites("actionSteps", 2,
                  <<"stepNumber", "title", "description", "estimatedTime", "dependencies">>)
    \o <<Site("totalEstimatedTime", -1, "")>>
    \o ArraySites("risks", 2, <<"id", "title", "severity", "mitigation">>)
    \o ObjectSites("nextImmediateAction", <<"action", "reasoning", "timeframe">>)

SpoiltAt(data, site, kind) ==
    IF site.field = "" THEN Defective(data, site.section, kind)
    ELSE IF site.index = -1
    THEN Set(data, site.section, Defective(data.v[site.section], site.field, kind))
    ELSE DefectiveElement(data, site.section, site.index, site.field, kind)

\* validateFullResponse is called on a response spoilt at the sites numbered
\* a and b (0: nowhere)
ValidateFull ==
    /\ call = NoCall
    /\ \E b \in 0..Len(Sites) : \E a \in 0..b : \E ka, kb \in DefectKinds :
         \E spoiltB \in {IF b = 0 THEN FullA ELSE SpoiltAt(FullA, Sites[b], kb)} :
           \E data \in {IF a = 0 \/ a = b THEN spoiltB ELSE SpoiltAt(spoiltB, Sites[a], ka)} :
             call' = [fn |-> "validateFullResponse",
                      defects |-> {a, b} \ {0},
                      arg |-> data,
                      result |-> validateFullResponse(data)]
    /\ UNCHANGED <<agentVars, fw, twin, other, ui>>

\* JSON values and the texts that carry them
JsonValues == {AnalysisA, StepsA, Arr(<<>>), Str("json"), Num(1, 1), Null}

MaxPadding == 1

Spaces(n) == [i \in 1..n |-> Space]

Wrapped(wrap, inner) ==
    CASE wrap = "json" -> <<Fence, Word("json")>> \o inner \o <<Fence>>
      [] wrap = "bare" -> <<Fence>> \o inner \o <<Fence>>
      [] wrap = "none" -> inner

\* Texts that carry no JSON value, or carry it in another wrapping
OtherTexts ==
    { <<>>, <<Word("not"), Space, Word("json")>>,
      <<Fence, Word("javascript"), Space, Json(AnalysisA), Space, Fence>>,
      <<Word("Here"), Space, Json(AnalysisA)>>,
      <<Fence, Word("json"), Space, Word("oops"), Fence>>,
      <<Json(AnalysisA), Json(StepsA)>>,
      <<Fence, Word("json"), Json(AnalysisA), Fence, Space, Word("Done")>> }

\* parseJSONResponse is called on a text
Parse ==
    /\ call = NoCall
    /\ \/ \E value \in JsonValues, wrap \in {"json", "bare", "none"} :
            \E before, after, inBefore, inAfter \in 0..MaxPadding :
              \E text \in {Spaces(before)
                           \o Wrapped(wrap, Spaces(inBefore) \o <<Json(value)>> \o Spaces(inAfter))
                           \o Spaces(after)} :
                call' = [fn |-> "parseJSONResponse", wrap |-> wrap, value |-> value,
                         arg |-> text, result |-> parseJSONResponse(text)]
       \/ \E text \in OtherTexts :
            call' = [fn |-> "parseJSONResponse", wrap |-> "other", value |-> Undef,
                     arg |-> text, result |-> parseJSONResponse(text)]
    /\ UNCHANGED <<agentVars, fw, twin, other, ui>>

\* A goal of `length` characters: letters with white space before and after
PaddedGoal(length, before, after) ==
    [i \in 1..length |-> IF i <= before \/ i > length - after THEN " " ELSE "a"]

\* Goals at the length limit, with and without white space around them,
\* goals of white space only, and goals that are no string
GoalsAtLimit ==
    { Str(PaddedGoal(length, before, after)) :
        length \in {MaxGoalLength - 1, MaxGoalLength, MaxGoalLength + 1},
        before \in {0, 1, 2}, after \in {0, 1, 2} }
    \cup { Str(PaddedGoal(length, length, 0)) : length \in {0, 1, MaxGoalLength, MaxGoalLength + 1} }
    \cup { Str(<<"a">>), Undef, Null, Num(7, 1) }

\* validateInput is called on a body whose other fields are valid
ValidateGoal ==
    /\ call = NoCall
    /\ \E goal \in GoalsAtLimit, time \in {Undef, Str("2 weeks")} :
         \E body \in {Obj([goal |-> goal, priority |-> Str("high"), timeAvailable |-> time])} :
           call' = [fn |-> "validateInput", arg |-> body, result |-> validateInput(body)]
    /\ UNCHANGED <<agentVars, fw, twin, other, ui>>

\* Step numbers: 1, 2, 0, -1, 1.5, 0.5, Infinity (JSON.parse of 1e999), and
\* values that are no number
StepNumbers ==
    { Num(1, 1), Num(2, 1), Num(0, 1), Num(-1, 1), Num(3, 2), Num(1, 2), Num(1, 0),
      Str("1"), Null, Undef }

\* validateActionStep is called on a step whose other fields are valid
ValidateStep ==
    /\ call = NoCall
    /\ \E stepNumber \in StepNumbers, index \in 0..1 :
         \E step \in {Set(StepTwo, "stepNumber", stepNumber)} :
           call' = [fn |-> "validateActionStep", arg |-> step, index |-> index,
                    result |-> validateActionStep(step, index)]
    /\ UNCHANGED <<agentVars, fw, twin, other, ui>>

\* Values of the dependencies of the second of two steps: the title of the
\* first step, no title, a title of no step, its own title, elements that
\* are no strings, and values that are no array
DependencyValues ==
    { Arr(<<>>), Arr(<<Str("Get a guitar")>>), Arr(<<Str("No such step")>>),
      Arr(<<Str("Learn chords")>>), Arr(<<Num(7, 1)>>), Arr(<<Str("Get a guitar"), Null>>),
      Null, Undef }

\* validateFullResponse is called on a response whose second step has these
\* dependencies and whose other fields are valid
ValidateDependencies ==
    /\ call = NoCall
    /\ \E dependencies \in DependencyValues :
         \E steps \in {Arr(<<StepOne, Set(StepTwo, "dependencies", dependencies)>>)} :
           call' = [fn |-> "actionSteps", arg |-> steps,
                    result |-> validateFullResponse(Set(FullA, "actionSteps", steps))]
    /\ UNCHANGED <<agentVars, fw, twin, other, ui>>

\* The six validators by name
Validators ==
    {"validateInput", "validateGoalAnalysis", "validateActionStep", "validateRisk",
     "validateNextAction", "validateFullResponse"}

Validate(validator, arg) ==
    CASE validator = "validateInput" -> validateInput(arg)
      [] validator = "validateGoalAnalysis" -> validateGoalAnalysis(arg)
      [] validator = "validateActionStep" -> validateActionStep(arg, 0)
      [] validator = "validateRisk" -> validateRisk(arg, 0)
      [] validator = "validateNextAction" -> validateNextAction(arg)
      [] validator = "validateFullResponse" -> validateFullResponse(arg)

\* A variant that writes the trimmed goal back into the body it was given
ArgumentNormalised(validator, arg) ==
    IF validator = "validateInput" /\ IsString(Get(arg, "goal"))
    THEN Set(arg, "goal", Str(Trim(Get(arg, "goal").v)))
    ELSE arg

\* The object a validator was given, as the caller finds it when the call has
\* ended: the validators read input, data, s, r and response, and assign to
\* none of their properties
ArgumentAfter(validator, arg) == arg

\* o with a property no schema knows
WithExtra(o) == Set(o, "extra", Str("x"))

\* A valid argument of each validator
ValidArgument(validator) ==
    CASE validator = "validateInput" ->
           Obj([goal |-> Str(<<" ", "a", "b", " ">>), priority |-> Str("high"),
                timeAvailable |-> Str("2 weeks")])
      [] validator = "validateGoalAnalysis" -> AnalysisA
      [] validator = "validateActionStep" -> StepTwo
      [] validator = "validateRisk" -> RiskA
      [] validator = "validateNextAction" -> NextA
      [] validator = "validateFullResponse" -> FullA

\* The valid argument with unknown properties, at the top and inside
ExtraArgument(validator) ==
    IF validator = "validateFullResponse"
    THEN Obj([goalAnalysis |-> WithExtra(AnalysisA),
              actionSteps |-> Arr(<<WithExtra(StepOne), StepTwo>>),
              totalEstimatedTime |-> Str("2 weeks"),
              risks |-> Arr(<<RiskA, WithExtra(RiskB)>>),
              nextImmediateAction |-> WithExtra(NextA),
              extra |-> Str("x")])
    ELSE WithExtra(ValidArgument(validator))

\* A validator is called on a valid argument, on one with unknown properties,
\* or on one with a property spoilt
ValidateAny ==
    /\ call = NoCall
    /\ \E validator \in Validators :
         \E arg \in {ValidArgument(validator), ExtraArgument(validator)}
                    \cup { Defective(ExtraArgument(validator), k, kind) :
                             k \in DOMAIN ValidArgument(validator).v, kind \in DefectKinds } :
           call' = [fn |-> "validator", validator |-> validator, arg |-> arg,
                    result |-> Validate(validator, arg),
                    after |-> ArgumentAfter(validator, arg)]
    /\ UNCHANGED <<agentVars, fw, twin, other, ui>>

CallNext ==
    \/ ValidateFragment
    \/ ValidateFull
    \/ Parse
    \/ ValidateGoal
    \/ ValidateStep
    \/ ValidateDependencies
    \/ ValidateAny

CallSpec == Init /\ [][CallNext]_vars

----------------------------------------------------------------------------
(* The Index page: handleSubmit, handleRetry, handleNewGoal and what is
   rendered. One action is one task of the browser: an event handler, or the
   continuation of handleSubmit after its await; the state updates a task
   makes are committed together when it ends, and the next event finds the
   page rendered from them. *)

\* analyzeGoal calls explored in one behaviour
MaxCalls == 3

\* What the user may have typed into the form
FormGoals == { <<>>, <<" ">>, <<"g", "o">>, <<" ", "r", "u", "n", " ">> }
FormPriorities == { "medium", "high" }
FormTimes == { <<>>, <<"2", "w">> }

\* A second plan
FullB == Set(FullA, "totalEstimatedTime", Str("3 months"))

FunctionsHttpError ==
    Obj([name |-> Str("FunctionsHttpError"),
         message |-> Str("Edge Function returned a non-2xx status code")])
FunctionsErrorNoMessage == Obj([name |-> Str("FunctionsRelayError"), message |-> Str("")])
FetchTypeError == Obj([name |-> Str("TypeError"), message |-> Str("Failed to fetch")])

\* What supabase.functions.invoke may settle with: { data, error }, or a
\* rejection
InvokeOutcomes ==
    { [kind |-> "resolves", data |-> d, error |-> Null] : d \in {FullA, FullB, Null} }
    \cup { [kind |-> "resolves", data |-> Null, error |-> e] :
             e \in {FunctionsHttpError, FunctionsErrorNoMessage} }
    \cup { [kind |-> "rejects", reason |-> FetchTypeError] }

\* JSON.stringify(x): a string, the JSON text of x
Stringified(x) == [t |-> "string", json |-> x]

\* analyzeGoal after its await: the data, or a thrown AgentError
analyzeGoal(outcome) ==
    IF outcome.kind = "rejects" THEN Throw(outcome.reason)
    ELSE IF Truthy(outcome.error)
    THEN Throw(Obj([code |-> Str("FUNCTION_ERROR"),
                    message |-> IF Truthy(Get(outcome.error, "message"))
                                THEN Get(outcome.error, "message")
                                ELSE Str("Failed to analyze goal"),
                    details |-> Stringified(outcome.error)]))
    ELSE IF ~Truthy(outcome.data)
    THEN Throw(Obj([code |-> Str("NO_RESPONSE"),
                    message |-> Str("No response received from the agent")]))
    ELSE Ok(outcome.data)

\* Variant: the form stays on the page while a call is pending
FormRenderedWhileLoading(u) == ~Truthy(u.result)

\* What the page renders: the form, the error with Try Again, the plan with
\* New Goal
FormRendered(u) == ~Truthy(u.result) /\ ~u.isLoading
ErrorDisplayed(u) == Truthy(u.error) /\ ~u.isLoading
ResultDisplayed(u) == Truthy(u.result) /\ ~u.isLoading

\* handleSubmit(input) up to its await: four state updates and the call of
\* analyzeGoal
handleSubmit(u, input) ==
    [u EXCEPT !.isLoading = TRUE, !.error = Null, !.result = Null, !.lastInput = input,
              !.pending = @ \cup {u.calls + 1}, !.calls = @ + 1]

\* The form is submitted: GoalForm's handleSubmit ignores a blank goal and
\* otherwise calls onSubmit with the trimmed goal
GoalFormSubmit ==
    /\ FormRendered(ui)
    /\ ui.calls < MaxCalls
    /\ \E goal \in FormGoals, priority \in FormPriorities, timeAvailable \in FormTimes :
         ui' = IF Len(Trim(goal)) = 0 THEN ui
               ELSE handleSubmit(ui, Obj([goal |-> Str(Trim(goal)),
                                          priority |-> Str(priority),
                                          timeAvailable |-> IF Len(Trim(timeAvailable)) = 0
                                                            THEN Undef
                                                            ELSE Str(Trim(timeAvailable))]))
    /\ UNCHANGED <<agentVars, fw, call, twin, other>>

\* Try Again is clicked: handleRetry
HandleRetry ==
    /\ ErrorDisplayed(ui)
    /\ ui.calls < MaxCalls
    /\ ui' = IF Truthy(ui.lastInput) THEN handleSubmit(ui, ui.lastInput) ELSE ui
    /\ UNCHANGED <<agentVars, fw, call, twin, other>>

\* New Goal is clicked: handleNewGoal
HandleNewGoal ==
    /\ ResultDisplayed(ui)
    /\ ui' = [ui EXCEPT !.result = Null, !.error = Null, !.lastInput = Null]
    /\ UNCHANGED <<agentVars, fw, call, twin, other>>

\* A pending analyzeGoal call settles and its handleSubmit goes on after the
\* await: setResult or setError, and setIsLoading(false) in the finally block
AnalyzeGoalSettles ==
    /\ \E id \in ui.pending, outcome \in InvokeOutcomes :
         \E r \in {analyzeGoal(outcome)} :
           ui' = [ui EXCEPT !.result = IF r.ok THEN r.value ELSE @,
                            !.error = IF r.ok THEN @ ELSE r.error,
                            !.isLoading = FALSE,
                            !.pending = @ \ {id}]
    /\ UNCHANGED <<agentVars, fw, call, twin, other>>

UINext ==
    \/ GoalFormSubmit
    \/ HandleRetry
    \/ HandleNewGoal
    \/ AnalyzeGoalSettles

UISpec == Init /\ [][UINext]_vars

----------------------------------------------------------------------------
(* Properties of the validators and of the parser *)

\* The name under which the validators report a field of a fragment
FragmentPrefix(kind) ==
    CASE kind = "goalAnalysis" -> "goalAnalysis"
      [] kind = "steps" -> "actionSteps"
      [] kind = "risks" -> "risks"
      [] kind = "nextAction" -> "nextImmediateAction"

FragmentFieldName(kind, d) ==
    IF d.index >= 0
    THEN FragmentPrefix(kind) \o "[" \o ToString(d.index) \o "]." \o d.field
    ELSE IF kind \in {"steps", "risks"} THEN d.field
    ELSE FragmentPrefix(kind) \o "." \o d.field

\* C17 as claimed: the validation of a step accepts a valid example of its
\* fragment, and with any one field of the example removed or mistyped it
\* fails with a ValidationError whose field names that field.
C17_FragmentFieldsRequired ==
    call.fn \in FragmentKinds =>
        IF call.defect = NoDefect
        THEN call.result.ok
        ELSE /\ ~call.result.ok
             /\ IsValidationError(call.result.error)
             /\ call.result.error.field = FragmentFieldName(call.fn, call.defect)

\* The dotted / indexed path of a site of the assembled response
SitePath(site) ==
    IF site.field = "" THEN site.section
    ELSE IF site.index = -1 THEN site.section \o "." \o site.field
    ELSE site.section \o "[" \o ToString(site.index) \o "]." \o site.field

Min(S) == CHOOSE x \in S : \A y \in S : x <= y

\* C18: validateFullResponse succeeds exactly when no site is spoilt, and
\* otherwise fails with a ValidationError whose field is the path of the
\* first spoilt site in the order goalAnalysis.*, actionSteps[i].* by index
\* and declaration order, totalEstimatedTime, risks[i].*, nextImmediateAction.*.
C18_FirstFailingPath ==
    call.fn = "validateFullResponse" =>
        IF call.defects = {}
        THEN call.result = Ok(call.arg)
        ELSE /\ ~call.result.ok
             /\ IsValidationError(call.result.error)
             /\ call.result.error.field = SitePath(Sites[Min(call.defects)])

\* C18 witness: a response with actionSteps[1].title and risks[0].severity
\* both spoilt has been rejected for actionSteps[1].title
C18_Witness ==
    /\ call.fn = "validateFullResponse"
    /\ Cardinality(call.defects) = 2
    /\ SitePath(Sites[Min(call.defects)]) = "actionSteps[1].title"
    /\ \E b \in call.defects : SitePath(Sites[b]) = "risks[0].severity"
    /\ call.result.error.field = "actionSteps[1].title"

\* C20: on a JSON text in a fence tagged json, in a bare fence or in no
\* fence, with any white space around it, parseJSONResponse returns what
\* JSON.parse returns on the text alone; on text without fence the removal
\* of fences changes nothing.
C20_FenceTransparency ==
    (call.fn = "parseJSONResponse" /\ call.wrap \in {"json", "bare", "none"}) =>
        /\ call.result = Ok(call.value)
        /\ call.result = JSONParse(<<Json(call.value)>>)
        /\ call.wrap = "none" =>
              StripClosingFence(StripOpeningFence(TrimTokens(call.arg))) = TrimTokens(call.arg)

\* C20 witness: a padded text in a bare fence has been parsed
C20_Witness ==
    /\ call.fn = "parseJSONResponse"
    /\ call.wrap = "bare"
    /\ call.arg = <<Space, Fence, Space, Json(StepsA), Space, Fence, Space>>
    /\ call.result.ok

\* The run has assembled its four fragments and called validateFullResponse
Assembled == AgentExists /\ state.currentStep = "validate_output"

\* C19: a returned response has at least one action step; an assembled
\* response succeeds exactly when its actionSteps is not empty, so a run
\* with risks = [] and a step list of one step or more succeeds and a run
\* with an empty step list never does.
C19_StepsNonEmptyRisksMayBeEmpty ==
    /\ Succeeded => Len(response.body.v.actionSteps.v) >= 1
    /\ Assembled =>
          /\ Responded
          /\ Succeeded <=> Len(Get(state.partialResponse, "actionSteps").v) > 0
          /\ (/\ Get(state.partialResponse, "risks") = Arr(<<>>)
              /\ Len(Get(state.partialResponse, "actionSteps").v) > 0) =>
                /\ response.status = 200
                /\ response.body.v.risks = Arr(<<>>)
          /\ Get(state.partialResponse, "actionSteps") = Arr(<<>>) =>
                /\ response.status # 200
                /\ response.body.field = Str("actionSteps")

\* C19 witness: a run whose risk step answered with an empty list succeeded
C19_Witness ==
    /\ Succeeded
    /\ response.body.v.risks = Arr(<<>>)
    /\ answer = Answer(Bare(NextA))

\* What is left of the text of a call when parseJSONResponse has removed the
\* fences and trimmed
Cleaned == TrimTokens(StripClosingFence(StripOpeningFence(TrimTokens(call.arg))))

\* The text 'not json'
IsNotJson(text) ==
    /\ Len(text) = 3
    /\ text[1].tok = "word" /\ text[1].v = "not"
    /\ text[2] = Space
    /\ text[3].tok = "word" /\ text[3].v = "json"

\* JSON.parse accepts exactly a text that is one JSON value
Parseable(text) == Len(text) = 1 /\ text[1].tok = "json"

\* C21: whenever the text left after the removal of the fences is not JSON,
\* parseJSONResponse throws the error 'Failed to parse LLM response as JSON',
\* which is a plain Error and no ValidationError, and returns no value; the
\* text 'not json' is such a text.
C21_ParserFailsLoudly ==
    call.fn = "parseJSONResponse" =>
        /\ ~Parseable(Cleaned) =>
              /\ ~call.result.ok
              /\ call.result.error = ParseError
              /\ call.result.error.name = "Error"
              /\ ~IsValidationError(call.result.error)
        /\ IsNotJson(call.arg) => ~Parseable(Cleaned)
        /\ call.result.ok => Parseable(Cleaned) /\ call.result.value = Cleaned[1].v

\* C21 witness: parseJSONResponse was called on the text 'not json' and threw
C21_Witness ==
    /\ call.fn = "parseJSONResponse"
    /\ IsNotJson(call.arg)
    /\ ~call.result.ok

\* The first elements of `long` are those of `short`
IsPrefix(short, long) ==
    Len(short) <= Len(long) /\ SubSeq(long, 1, Len(short)) = short

\* C22: a second run on the same request, the gateway settling each call as
\* in the first run, invokes the same executors in the same order, awaits
\* the same delays, never makes a call the first run did not make, and
\* answers with the same response (status and body, the AgentResponse on
\* success).
C22_Determinism ==
    twin.run = 2 =>
        /\ IsPrefix(invoked, twin.first.invoked)
        /\ IsPrefix(succeeded, twin.first.succeeded)
        /\ IsPrefix(delays, twin.first.delays)
        /\ pc = "fetching" => Len(twin.script) < Len(twin.first.script)
        /\ pc = "responded" =>
              /\ invoked = twin.first.invoked
              /\ succeeded = twin.first.succeeded
              /\ delays = twin.first.delays
              /\ twin.script = twin.first.script
              /\ response.status = twin.first.response.status
              /\ response = twin.first.response

\* C22 witness: the second run of a request whose first run needed retries
\* has succeeded
C22_Witness ==
    /\ twin.run = 2
    /\ Succeeded
    /\ Len(twin.first.delays) >= 2
    /\ Len(invoked) > Len(ToolSteps)

\* The invocation serves its request with an agent made from that request
OwnAgent(h) ==
    h.state # NoAgent =>
        /\ h.request # NoRequest
        /\ h.state.input = validateInput(h.request.body).value

\* C23: with two invocations interleaved at their awaits, each has its own
\* agent, made from its own request; a step of the running invocation leaves
\* the waiting one as it is; and a request that was served interleaved with
\* another, served again alone against the same gateway outcomes, makes the
\* same invocations and gets the same response.
C23_RequestIsolation ==
    /\ [](OwnAgent(Handler) /\ OwnAgent(other))
    /\ []((twin.run = 2 /\ pc = "responded") =>
            /\ invoked = twin.first.invoked
            /\ delays = twin.first.delays
            /\ response = twin.first.response)
    /\ [][other' # other => (other' = Handler /\ Handler' = other)]_vars

\* C23 witness: two requests are being served, both have an agent of their
\* own; the running one, which needed a retry, has succeeded while the
\* other waits for its backoff timer
C23_Witness ==
    /\ twin.run = 1
    /\ Succeeded
    /\ Len(delays) >= 1
    /\ other.pc = "backoff"
    /\ other.state # NoAgent
    /\ other.request # request
    /\ Len(other.invoked) >= 2

\* The request served interleaved has been served again alone
C23_RerunWitness ==
    /\ twin.run = 2
    /\ Succeeded
    /\ other.pc = "responded"
    /\ other.request # request

\* The JSON value an answer of the gateway carries
JsonOf(outcome) ==
    LET i == CHOOSE i \in 1..Len(outcome.content) : outcome.content[i].tok = "json"
    IN outcome.content[i].v

\* The gateway answered the call of `step` with a fragment that is valid by
\* the schema of §3
ValidFragment(step, outcome) ==
    /\ outcome.kind = "response" /\ outcome.status = 200 /\ outcome.body = "message"
    /\ \E i \in 1..Len(outcome.content) : outcome.content[i].tok = "json"
    /\ LET v == JsonOf(outcome)
       IN /\ v.t = "object"
          /\ CASE step = "analyze_complexity" ->
                    /\ {"summary", "category", "complexity"} \subseteq DOMAIN v.v
                    /\ GoalAnalysisSchema(Obj([k \in {"summary", "category", "complexity"}
                                                  |-> v.v[k]]))
               [] step = "generate_steps" ->
                    /\ {"steps", "totalTime"} \subseteq DOMAIN v.v
                    /\ v.v.totalTime.t = "string"
                    /\ v.v.steps.t = "array" /\ Len(v.v.steps.v) > 0
                    /\ \A i \in 1..Len(v.v.steps.v) : ActionStepSchema(v.v.steps.v[i])
               [] step = "identify_risks" ->
                    /\ "risks" \in DOMAIN v.v
                    /\ v.v.risks.t = "array"
                    /\ \A i \in 1..Len(v.v.risks.v) : RiskSchema(v.v.risks.v[i])
               [] step = "determine_next_action" -> NextActionSchema(v)

\* Every LLM call of the run so far was the first attempt of its step and
\* was answered with a valid fragment
AllFirstAttemptsValid ==
    /\ twin.run = 1
    /\ AgentExists
    /\ \A k \in 1..Len(twin.script) :
          k > Len(ToolSteps) \/ ValidFragment(ToolSteps[k], twin.script[k])

\* C24: for a valid input, while the gateway answers the first attempt of
\* each step with a valid fragment, the calls made are those of the steps in
\* order and no backoff is awaited; after the fourth answer exactly four calls
\* were made, the handler answers 200, actionSteps has as many elements as
\* the steps the gateway returned and nextImmediateAction.timeframe is a
\* non-empty string.
C24_EndToEndSuccess ==
    AllFirstAttemptsValid =>
        /\ delays = <<>>
        /\ Len(twin.script) <= Len(ToolSteps)
        /\ IsPrefix(invoked, ToolSteps)
        /\ Len(twin.script) < Len(ToolSteps) => pc \in {"created", "fetching"}
        /\ Len(twin.script) = Len(ToolSteps) =>
              /\ Responded
              /\ invoked = ToolSteps
              /\ response.status = 200
              /\ Len(response.body.v.actionSteps.v) = Len(JsonOf(twin.script[2]).v.steps.v)
              /\ response.body.v.nextImmediateAction.v.timeframe.t = "string"
              /\ response.body.v.nextImmediateAction.v.timeframe.v # ""

\* C24 witness: four valid fragments, one call each, answered with 200
C24_Witness ==
    /\ AllFirstAttemptsValid
    /\ Len(twin.script) = Len(ToolSteps)
    /\ Succeeded
    /\ Len(response.body.v.actionSteps.v) = 4

\* 2^a by repeated doubling
RECURSIVE Doubled(_, _)
Doubled(x, a) == IF a = 0 THEN x ELSE Doubled(2 * x, a - 1)

\* An attempt of the current step has just failed
AttemptFailed == pc = "fetching" /\ Len(stepErrors') = Len(stepErrors) + 1

\* C25: when the 0-based attempt a of a step fails and is not the last one,
\* executeWithRetry awaits 1000 * 2^a ms (1000 after the first failure, 2000
\* after the second) and then makes the next attempt of the same step; after
\* the last failed attempt it awaits nothing and the run has failed; a delay
\* is awaited at no other time.
C25_OrchestratorBackoff ==
    /\ [](\A i \in 1..Len(delays) : delays[i] \in {1000, 2000})
    /\ [](pc = "backoff" =>
            /\ attempt < state.maxRetries - 1
            /\ Last(delays) = Doubled(1000, attempt))
    /\ [][ /\ (AttemptFailed /\ attempt < 2) =>
                  /\ delays' = Append(delays, IF attempt = 0 THEN 1000 ELSE 2000)
                  /\ pc' = "backoff"
                  /\ invoked' = invoked
           /\ (AttemptFailed /\ attempt >= 2) =>
                  /\ delays' = delays
                  /\ Responded'
                  /\ response'.status # 200
           /\ delays' # delays => AttemptFailed
           /\ pc = "backoff" =>
                  /\ delays' = delays
                  /\ pc' = "fetching"
                  /\ invoked' = Append(invoked, state.currentStep)
                  /\ attempt' = attempt + 1
         ]_vars

\* C25 witness: a step failed three times; 1000 and 2000 ms were awaited
\* and nothing after the third failure
C25_Witness ==
    /\ Responded
    /\ Len(stepErrors) = 3
    /\ delays = <<1000, 2000>>

\* The index of the latest invocation of `step`
LastIndex(step) ==
    CHOOSE i \in 1..Len(invoked) :
        invoked[i] = step /\ \A j \in (i + 1)..Len(invoked) : invoked[j] # step

\* The fragment the executor of `step` returned in its successful attempt:
\* what parsing and validating gives on the answer to that attempt's call
Produced(step) == Execute(step, twin.script[LastIndex(step)]).value

\* C26: every invocation of generate_steps is given the complexity of the
\* analysis the successful analyze_complexity attempt returned; every
\* invocation of identify_risks is given the steps the successful
\* generate_steps attempt returned and every invocation of
\* determine_next_action the first three of them; each field of a returned
\* AgentResponse is the fragment of the successful attempt of its step.
C26_ThreadingAndAssembly ==
    /\ Len(prompts) = Len(invoked)
    /\ \A i \in 1..Len(invoked) :
          /\ invoked[i] = "generate_steps" =>
                prompts[i].complexity = Produced("analyze_complexity").v.complexity
          /\ invoked[i] = "identify_risks" =>
                prompts[i].steps = Produced("generate_steps").steps.v
          /\ invoked[i] = "determine_next_action" =>
                /\ Len(prompts[i].steps) <= 3
                /\ IsPrefix(prompts[i].steps, Produced("generate_steps").steps.v)
                /\ Len(prompts[i].steps) < 3 =>
                      prompts[i].steps = Produced("generate_steps").steps.v
    /\ Succeeded =>
          /\ response.body.v.goalAnalysis = Produced("analyze_complexity")
          /\ response.body.v.actionSteps = Produced("generate_steps").steps
          /\ response.body.v.totalEstimatedTime = Produced("generate_steps").totalTime
          /\ response.body.v.risks = Produced("identify_risks")
          /\ response.body.v.nextImmediateAction = Produced("determine_next_action")

\* C26 witness: the analysis was accepted at the second attempt, after one
\* that failed validation; four steps were generated and the last step,
\* retried once, was given the first three both times
C26_Witness ==
    /\ twin.run = 1
    /\ Succeeded
    /\ twin.script[1] = Answer(Bare(AnalysisShort))
    /\ twin.script[2] = Answer(Bare(AnalysisB))
    /\ response.body.v.goalAnalysis.v.complexity = Str("simple")
    /\ Len(response.body.v.actionSteps.v) = 4
    /\ Count(invoked, "determine_next_action") = 2
    /\ prompts[Len(prompts)].steps = <<StepOne, StepTwo, StepThree>>

\* C27: a run, once its agent is created, ends with a response (200 or an
\* error); an executor invocation has one LLM call, which settles once, so
\* the calls of a run are its invocations: at most 12, three for each step,
\* with at most 8 delays awaited, two for each step.
C27_TerminationAndCallBound ==
    /\ [](/\ Len(invoked) <= 12
          /\ Len(delays) <= 8
          /\ inFlight \in {0, 1}
          /\ inFlight = 1 <=> pc = "fetching"
          /\ \A k \in 1..Len(ToolSteps) : Count(invoked, ToolSteps[k]) <= 3)
    /\ [][pc = "fetching" =>
             /\ answer' \in Answers(state.currentStep)
             /\ \/ Len(succeeded') = Len(succeeded) + 1
                \/ Len(stepErrors') = Len(stepErrors) + 1
             /\ ~callLLM(answer').ok =>
                   /\ Len(stepErrors') = Len(stepErrors) + 1
                   /\ Last(stepErrors') = callLLM(answer').error
             /\ Len(invoked') <= Len(invoked) + 1]_vars
    /\ (pc = "created") ~> Responded
    /\ [](Responded => [](Responded /\ response.status \in {200, 400, 500}))

\* C27 witness: every step needed its three attempts: 12 calls, 8 delays
C27_Witness ==
    /\ Responded
    /\ Len(invoked) = 12
    /\ Len(delays) = 8

\* fetchWithRetry has returned a response or thrown
FwEnded == fw.pc \in {"returned", "thrown"}

\* C28: whatever the fetches settle with, a call of fetchWithRetry makes at
\* most maxRetries fetches, one per settled outcome, and ends (returns or
\* throws); it returns as soon as a fetch gives a 2xx response, so no fetch
\* follows a 2xx response, and once it has ended nothing more happens.
C28_BoundedAttempts ==
    /\ [](FwCalled =>
            /\ fw.fetches <= fw.maxRetries
            /\ fw.fetches = Len(fw.outcomes) + (IF fw.pc = "fetching" THEN 1 ELSE 0)
            /\ \A i \in 1..Len(fw.outcomes) :
                  Status(fw.outcomes[i]) \in 200..299 =>
                      /\ i = Len(fw.outcomes)
                      /\ fw.pc = "returned"
            /\ (Len(fw.outcomes) = fw.maxRetries /\ fw.pc # "waiting") => FwEnded)
    /\ [][FwEnded => fw' = fw]_vars
    /\ FwCalled ~> FwEnded

\* C28 witness: with maxRetries 3 the third fetch failed as the two before
\* and the call has thrown after three fetches
C28_Witness ==
    /\ FwCalled
    /\ fw.pc = "thrown"
    /\ fw.maxRetries = 3
    /\ fw.fetches = 3
    /\ Status(fw.outcomes[1]) = 500
    /\ fw.outcomes[2] = FetchRejects
    /\ Status(fw.outcomes[3]) = 429

\* What stands between the opening marker with its tag and the closing fence
FenceBody(text) == TrimTokens(SubSeq(TrimTokens(text), 3, Len(TrimTokens(text)) - 1))

\* The text is one JSON text in a fence whose opening marker carries a tag
TaggedFence(text) ==
    /\ Len(TrimTokens(text)) >= 4
    /\ TrimTokens(text)[1] = Fence
    /\ TrimTokens(text)[2].tok = "word"
    /\ TrimTokens(text)[Len(TrimTokens(text))] = Fence
    /\ Parseable(FenceBody(text))

\* C29 as claimed: on a JSON text in a fence with a language tag, json or
\* another, parseJSONResponse returns the value of the JSON text.
C29_LanguageTagStripped ==
    (call.fn = "parseJSONResponse" /\ TaggedFence(call.arg)) =>
        call.result = Ok(FenceBody(call.arg)[1].v)

\* What holds: the tag json is removed with the fence; of a fence with
\* another tag only the three backticks are removed, the tag stays in front
\* of the JSON text and the parse fails.
C29_OnlyJsonTagStripped ==
    (call.fn = "parseJSONResponse" /\ TaggedFence(call.arg)) =>
        IF TrimTokens(call.arg)[2].v = "json"
        THEN call.result = Ok(FenceBody(call.arg)[1].v)
        ELSE /\ Cleaned[1] = TrimTokens(call.arg)[2]
             /\ call.result = Throw(ParseError)

PositiveInteger(x) ==
    /\ x.t = "number"
    /\ x.d > 0
    /\ x.n >= x.d
    /\ x.n % x.d = 0

\* C31 as claimed: validateActionStep accepts a step only if its stepNumber
\* is a positive integer, and rejects every other stepNumber with the field
\* actionSteps[i].stepNumber.
C31_StepNumberPositiveInteger ==
    call.fn = "validateActionStep" =>
        IF PositiveInteger(call.arg.v.stepNumber)
        THEN call.result.ok /\ call.result.value.v.stepNumber = call.arg.v.stepNumber
        ELSE /\ ~call.result.ok
             /\ call.result.error.field = Indexed("actionSteps", call.index) \o ".stepNumber"

\* What holds: a stepNumber is accepted exactly when it is a number that is
\* not less than 1; 1.5 and Infinity are accepted.
C31_StepNumberAtLeastOne ==
    call.fn = "validateActionStep" =>
        IF call.arg.v.stepNumber.t = "number"
           /\ call.arg.v.stepNumber.n >= call.arg.v.stepNumber.d
        THEN call.result.ok /\ call.result.value.v.stepNumber = call.arg.v.stepNumber
        ELSE /\ ~call.result.ok
             /\ call.result.error.field = Indexed("actionSteps", call.index) \o ".stepNumber"

\* The dependencies of step i of the list are strings, each the title of a
\* step before it
NamesPriorSteps(steps, i) ==
    /\ steps[i].v.dependencies.t = "array"
    /\ \A k \in 1..Len(steps[i].v.dependencies.v) :
          /\ steps[i].v.dependencies.v[k].t = "string"
          /\ \E j \in 1..(i - 1) : steps[j].v.title = steps[i].v.dependencies.v[k]

\* C32 as claimed: a response is accepted only if the dependencies of each
\* of its steps are strings naming titles of earlier steps; the accepted
\* response carries them unchanged.
C32_DependenciesNamePriorSteps ==
    call.fn = "actionSteps" =>
        /\ call.result.ok =>
              \A i \in 1..Len(call.result.value.v.actionSteps.v) :
                  NamesPriorSteps(call.result.value.v.actionSteps.v, i)
        /\ (\E i \in 1..Len(call.arg.v) : ~NamesPriorSteps(call.arg.v, i)) => ~call.result.ok

\* What holds: the dependencies are accepted exactly when they are an array,
\* whatever its elements
C32_DependenciesAnyArray ==
    call.fn = "actionSteps" =>
        IF \A i \in 1..Len(call.arg.v) : call.arg.v[i].v.dependencies.t = "array"
        THEN call.result.ok /\ call.result.value.v.actionSteps = call.arg
        ELSE /\ ~call.result.ok
             /\ call.result.error.field = "actionSteps[1].dependencies"

\* The properties of each validator's schema
SchemaFields(validator) ==
    CASE validator = "validateInput" -> {"goal", "priority", "timeAvailable"}
      [] validator = "validateGoalAnalysis" -> {"summary", "category", "complexity"}
      [] validator = "validateActionStep" ->
           {"stepNumber", "title", "description", "estimatedTime", "dependencies"}
      [] validator = "validateRisk" -> {"id", "title", "severity", "mitigation"}
      [] validator = "validateNextAction" -> {"action", "reasoning", "timeframe"}
      [] validator = "validateFullResponse" ->
           {"goalAnalysis", "actionSteps", "totalEstimatedTime", "risks",
            "nextImmediateAction"}

OnlySchema(validator, value) == value.t = "object" /\ DOMAIN value.v = SchemaFields(validator)

AllOnlySchema(validator, list) ==
    list.t = "array" /\ \A i \in 1..Len(list.v) : OnlySchema(validator, list.v[i])

\* The value a validator returns has the schema's properties and no other,
\* at the top and in every section
BuiltFromSchema(validator, value) ==
    /\ OnlySchema(validator, value)
    /\ validator = "validateFullResponse" =>
         /\ OnlySchema("validateGoalAnalysis", value.v.goalAnalysis)
         /\ AllOnlySchema("validateActionStep", value.v.actionSteps)
         /\ AllOnlySchema("validateRisk", value.v.risks)
         /\ OnlySchema("validateNextAction", value.v.nextImmediateAction)

C33_RejectedWitness ==
    /\ call.fn = "validator"
    /\ call.validator = "validateInput"
    /\ ~call.result.ok
    /\ "extra" \in DOMAIN call.arg.v

\* C34: the input held in the agent state is the one validateInput produced
\* from the request, no step, retry, wait or failure of the run changes it or
\* the request, the prompts of every step carry its goal, priority and
\* timeAvailable, and maxRetries is 3 throughout.
C34_InputImmutable ==
    /\ [](AgentExists =>
            /\ state.maxRetries = 3
            /\ \A i \in 1..Len(prompts) :
                 /\ invoked[i] \in {"analyze_complexity", "generate_steps", "identify_risks"} =>
                      prompts[i].goal = state.input.v.goal
                 /\ invoked[i] \in {"analyze_complexity", "determine_next_action"} =>
                      prompts[i].priority = state.input.v.priority
                 /\ invoked[i] = "generate_steps" =>
                      prompts[i].timeAvailable = state.input.v.timeAvailable)
    /\ [][/\ (~AgentExists /\ AgentExists') =>
               state'.input = validateInput(request'.body).value
          /\ AgentExists =>
               /\ state'.input = state.input
               /\ state'.maxRetries = state.maxRetries
               /\ request' = request]_vars

\* The fourth step is attempted again after a failed attempt and a wait, in a
\* run whose goal was trimmed by validateInput
C34_Witness ==
    /\ AgentExists
    /\ pc = "fetching"
    /\ state.currentStep = "determine_next_action"
    /\ attempt > 0
    /\ delays # <<>>
    /\ Len(prompts) > 4
    /\ state.input.v.goal # request.body.v.goal
    /\ prompts[Len(prompts)].priority = state.input.v.priority

\* The attempt whose failure the call is waiting after was the last permitted
AfterLastAttempt == fw.pc = "waiting" /\ Len(fw.outcomes) = fw.maxRetries

\* C35: fetchWithRetry waits for a backoff delay only when a further attempt
\* follows: after the last permitted attempt has failed (429 response, 5xx
\* response or thrown network error) it does not wait.
C35_NoWaitAfterLastAttempt == ~AfterLastAttempt

\* The last permitted attempt got a response that is waited after
LastGotRetriedStatus ==
    \E last \in {fw.outcomes[fw.maxRetries]} :
      last.kind = "response" /\ (last.status = 429 \/ last.status >= 500)

\* What holds: the call waits after the last permitted attempt only when that
\* attempt got a 429 or a 5xx response; when it threw (a rejected fetch, a 4xx
\* response) the call throws at once, without waiting.
C35_WaitAfterLastResponseOnly ==
    /\ [](AfterLastAttempt => LastGotRetriedStatus)
    /\ [][(fw.pc = "fetching" /\ fw'.pc # "fetching" /\ Len(fw'.outcomes) = fw.maxRetries) =>
            \E last \in {fw'.outcomes[fw.maxRetries]} :
              /\ last.kind = "reject" => fw'.pc = "thrown" /\ fw'.waits = fw.waits
              /\ (last.kind = "response" /\ last.status = 404) =>
                   fw'.pc = "thrown" /\ fw'.waits = fw.waits
              /\ (last.kind = "response" /\ last.status \in {429, 500}) =>
                   fw'.pc = "waiting" /\ Len(fw'.waits) = Len(fw.waits) + 1]_vars

\* The gateway answered with a message that carries a JSON object
CarriesObject(outcome) ==
    /\ outcome.kind = "response" /\ outcome.status = 200 /\ outcome.body = "message"
    /\ \E i \in 1..Len(outcome.content) : outcome.content[i].tok = "json"
    /\ JsonOf(outcome).t = "object"

\* The answer to the LLM call of generate_steps is arriving, and it is a JSON
\* object whose totalTime is missing or no string
AnswerWithoutTotalTime ==
    /\ pc = "fetching"
    /\ state.currentStep = "generate_steps"
    /\ CarriesObject(answer')
    /\ ~IsString(Get(JsonOf(answer'), "totalTime"))

\* C36: a generate_steps output whose totalTime is missing or no string does
\* not yield a successful step, and the totalEstimatedTime of a returned
\* response is never the default 'Varies', which no answer of the gateway
\* carries.
C36_TotalTimeValidated ==
    /\ [][AnswerWithoutTotalTime => succeeded' = succeeded]_vars
    /\ [](Succeeded => response.body.v.totalEstimatedTime # Str("Varies"))

\* What holds: when the steps of such an output are valid the step succeeds
\* with 'Varies' as the total time, and a returned response has a string as
\* totalEstimatedTime: the one of the gateway, or 'Varies'.
C36_DefaultSubstituted ==
    /\ [][(AnswerWithoutTotalTime /\ JsonOf(answer') = StepsNoTotal) =>
             /\ succeeded' = Append(succeeded, "generate_steps")
             /\ Get(state'.partialResponse, "totalEstimatedTime") = Str("Varies")
             /\ Get(state'.partialResponse, "actionSteps") = Get(StepsNoTotal, "steps")]_vars
    /\ [](Succeeded =>
            /\ IsString(response.body.v.totalEstimatedTime)
            /\ response.body.v.totalEstimatedTime \in {Str("Varies"), Get(StepsA, "totalTime")})

\* The answer to the LLM call of generate_steps is arriving, and it is a JSON
\* object whose steps are the empty list
AnswerWithNoSteps ==
    /\ pc = "fetching"
    /\ state.currentStep = "generate_steps"
    /\ CarriesObject(answer')
    /\ Get(JsonOf(answer'), "steps") = Arr(<<>>)

\* C37: when the gateway returns steps = [] the attempt of generate_steps
\* fails and the step is retried or the run fails; identify_risks and
\* determine_next_action are never invoked with an empty step list, and no
\* run reaches validate_output with actionSteps empty.
C37_EmptyStepsRejectedAtGeneration ==
    /\ [][AnswerWithNoSteps =>
             /\ succeeded' = succeeded
             /\ Len(stepErrors') = Len(stepErrors) + 1
             /\ state'.currentStep = "generate_steps"]_vars
    /\ [](\A i \in 1..Len(prompts) :
             invoked[i] \in {"identify_risks", "determine_next_action"} =>
                 prompts[i].steps # <<>>)
    /\ [](Assembled => Get(state.partialResponse, "actionSteps") # Arr(<<>>))

\* What holds: the empty list is accepted by generate_steps at once and
\* handed to identify_risks, as later to determine_next_action; the run is
\* rejected only by the final validation, with the field actionSteps, after
\* all four steps were called.
C37_EmptyStepsRejectedAtValidation ==
    /\ [][AnswerWithNoSteps =>
             /\ succeeded' = Append(succeeded, "generate_steps")
             /\ stepErrors' = <<>>
             /\ invoked' = Append(invoked, "identify_risks")
             /\ Last(prompts').steps = <<>>]_vars
    /\ []((AgentExists /\ Get(state.partialResponse, "actionSteps") = Arr(<<>>)) =>
            /\ \A i \in 1..Len(prompts) :
                 invoked[i] = "determine_next_action" => prompts[i].steps = <<>>
            /\ Responded =>
                 /\ response.status # 200
                 /\ Assembled => /\ response.status = 400
                                 /\ response.body.field = Str("actionSteps")
                                 /\ Count(invoked, "determine_next_action") >= 1)

\* A call of analyzeGoal is in flight
CallInFlight == ui.pending # {}

\* C38: in every state of the Index page result and error are not both set;
\* isLoading is true exactly while an analyzeGoal call is in flight, and then
\* neither the form nor Try Again nor New Goal is rendered; a handleSubmit
\* starts only when no call is in flight, so at most one is; and when a call
\* has settled exactly one of result and error is set.
C38_RequestLifecycle ==
    /\ [](/\ ~(Truthy(ui.result) /\ Truthy(ui.error))
          /\ ui.isLoading <=> CallInFlight
          /\ Cardinality(ui.pending) <= 1
          /\ CallInFlight =>
               ~FormRendered(ui) /\ ~ErrorDisplayed(ui) /\ ~ResultDisplayed(ui)
          /\ (~CallInFlight /\ ui.lastInput # Null) =>
               ~(Truthy(ui.result) <=> Truthy(ui.error)))
    /\ [][/\ ui'.calls # ui.calls => ~CallInFlight /\ ~ui.isLoading
          /\ (CallInFlight /\ ui'.pending # ui.pending) =>
               /\ ~ui'.isLoading
               /\ ~(Truthy(ui'.result) <=> Truthy(ui'.error))]_vars

\* C38 witness: a second call was made, after the first had settled, and has
\* settled with a plan that is displayed
C38_Witness ==
    /\ ui.calls = 2
    /\ ~ui.isLoading
    /\ ui.pending = {}
    /\ ui.result = FullB
    /\ ui.error = Null
    /\ ui.lastInput # Null

\* A call has settled with an error: NO_RESPONSE is displayed with Try Again
C38_ErrorWitness ==
    /\ ui.calls = 1
    /\ ErrorDisplayed(ui)
    /\ ui.result = Null
    /\ Get(ui.error, "code") = Str("NO_RESPONSE")
====
